---- MODULE Spec2Model ----
(***************************************************************************)
(* Model of the branch/language resolution-and-caching layer of the        *)
(* proofreading issue manager: CacheService (services/cache_service.py)    *)
(* and BranchSelector (branch_selector.py).                                *)
(*                                                                         *)
(* Python strings are modelled as sequences of one-character strings, so   *)
(* that strip/split/startswith/replace/lower and sorting are computed the  *)
(* way the code computes them.  Python dicts are functions whose DOMAIN is *)
(* the set of keys present.  Time is a natural-number clock.               *)
(***************************************************************************)
EXTENDS Integers, Sequences, FiniteSets, TLC

VARIABLES
    now,          \* the wall clock read by datetime.now()
    \* ---- CacheService ----
    cache,        \* self._cache : key -> [value, expires_at]
    lock,         \* self._lock  : "free" or the thread holding it
    pc,           \* per thread: position inside the running call
    call,         \* per thread: the running call [op, key, value, ttl]
    cache_entry,  \* per thread: local `cache_entry` of get
    expired_keys, \* per thread: local `expired_keys` of cleanup_expired
    result,       \* per thread: what the call returns
    at,           \* per thread: the clock value the call judged expiry at
    sets,         \* history: every entry a completed set stored, with its key
    lastSet,      \* history: per key, the latest set and whether it is still
                  \*          not followed by a delete/clear of that key
    calls,        \* history: number of calls started (bounded by MaxCalls)
    \* ---- BranchSelector ----
    local_repo_path,       \* self.local_repo_path : NoPath or a path
    local_branches_cache,  \* self._local_branches_cache : Nothing or Some(list)
    local_cache_time,      \* self._local_cache_time : Nothing or Some(time)
    branches_cache,        \* self._branches_cache : Nothing or Some(list)
    cache_time,            \* self._cache_time : Nothing or Some(time)
    repo,                  \* self.repo : TRUE once lazily loaded
    fetched,               \* history: Some(list the remote API last answered)
    fetched_at,            \* history: Some(time of that answer)
    matcher,               \* fuzzywuzzy's SequenceMatcher: "difflib" or
                           \* "levenshtein" (python-Levenshtein installed)
    ret,                   \* the latest call on the selector: its inputs, what it
                           \* did and what it returned
    \* ---- app.py, the language endpoints ----
    LANGUAGES,               \* Config.LANGUAGES : the (code, name) pairs in
                             \* the order of the dict
    weblate_languages_cache, \* the module-level dict: data, last_updated
    answered,                \* the latest request to a language endpoint
    \* ---- GitHubIntegration.link_to_project ----
    link,                    \* the link operation that takes the next step:
                             \* its arguments, its position, its locals and
                             \* the calls it sent
    peer,                    \* a second link operation, of another request,
                             \* waiting for its turn
    \* ---- app.py, the create routes ----
    repo_issues,             \* the issues of the GitHub repository, by title,
                             \* in the order created
    req,                     \* per client: its request to
                             \* /api/weblate/languages, step by step
    route                    \* the create route: its position, the title of
                             \* the request, the latest response and, as
                             \* history, the status of every response

cacheVars == <<cache, lock, pc, call, cache_entry, expired_keys, result, at,
               sets, lastSet, calls>>

branchVars == <<local_repo_path, local_branches_cache, local_cache_time,
                branches_cache, cache_time, repo, fetched, fetched_at, matcher, ret>>

appVars == <<LANGUAGES, weblate_languages_cache, answered>>

\* the state of what runs beside the one operation of an endpoint
moreVars == <<peer, repo_issues, req, route>>

restVars == <<appVars, link, moreVars>>

vars == <<now, cacheVars, branchVars, restVars>>

(***************************************************************************)
(* Bounds                                                                  *)
(***************************************************************************)
MaxNow == 2          \* the clock runs over 0..MaxNow
MaxCalls == 3        \* calls started on the CacheService in one behaviour
MaxTtl == 1          \* ttl_seconds ranges over 0..MaxTtl
MaxTime == 6         \* the BranchSelector's clock runs over 0..MaxTime minutes
MaxLines == 2        \* lines in a listing the local command prints
MaxBranches == 3     \* names in a list the remote API answers to fuzzy_search
MaxLimit == 3        \* fuzzy_search's limit ranges over 0..MaxLimit
MaxCatalog == 2      \* pairs in a catalog the remote API answers
HourStep == 8        \* hours between two instants of the language endpoints
MaxHour == 32        \* the clock of the language endpoints stops here
MaxFields == 2       \* items in the fields dict of a link operation
MaxNodes == 2        \* field nodes in an answer to the schema query
MaxRequests == 2     \* requests to the create route in one behaviour

Threads == {"t1", "t2"}
Keys == {"k1", "k2"}
Values == {"a", "b"}
None == "None"

Tick ==
    /\ now < MaxNow
    /\ now' = now + 1

(***************************************************************************)
(* CacheService                                                            *)
(***************************************************************************)
NoCall == [op |-> "none", key |-> "k1", value |-> None, ttl |-> 0]
NoEntry == [value |-> None, expires_at |-> 0]

\* del d[k] on a dict
DictDel(d, k) == [x \in DOMAIN d \ {k} |-> d[x]]

\* d[k] = e on a dict
DictPut(d, k, e) == [x \in DOMAIN d \cup {k} |-> IF x = k THEN e ELSE d[x]]

\* cache_service.py:20  `datetime.now() > cache_entry['expires_at']`
ExpiredOnOrAfter(e, t) == t >= e.expires_at
Expired(e, t) == t > e.expires_at

CacheInit ==
    /\ cache = << >>
    /\ lock = "free"
    /\ pc = [t \in Threads |-> "idle"]
    /\ call = [t \in Threads |-> NoCall]
    /\ cache_entry = [t \in Threads |-> NoEntry]
    /\ expired_keys = [t \in Threads |-> {}]
    /\ result = [t \in Threads |-> None]
    /\ at = [t \in Threads |-> 0]
    /\ sets = {}
    /\ lastSet = << >>
    /\ calls = 0

FirstStep(op) ==
    CASE op = "get" -> "get_check"
      [] op = "set" -> "set_store"
      [] op = "delete" -> "del_check"
      [] op = "clear" -> "clear"
      [] op = "cleanup_expired" -> "cl_scan"

\* The calls a caller can make: get(k), set(k, v, ttl), delete(k), clear(),
\* cleanup_expired().  Parameters a method does not take are left at NoCall's.
CallsOf ==
    {[NoCall EXCEPT !.op = "get", !.key = k] : k \in Keys}
    \cup {[op |-> "set", key |-> k, value |-> v, ttl |-> ttl] :
             k \in Keys, v \in Values, ttl \in 0..MaxTtl}
    \cup {[NoCall EXCEPT !.op = "delete", !.key = k] : k \in Keys}
    \cup {[NoCall EXCEPT !.op = "clear"], [NoCall EXCEPT !.op = "cleanup_expired"]}

\* `with self._lock:` is entered only while no other thread holds the lock
LockFreeAlways(t) == TRUE
LockFree(t) == lock = "free"

\* A caller invokes one of the five methods; the call enters its
\* `with self._lock:` block once the lock is free (until then it has no effect).
Invoke(t) ==
    /\ pc[t] = "idle"
    /\ calls < MaxCalls
    /\ LockFree(t)
    /\ lock' = t
    /\ \E c \in CallsOf :
          /\ call' = [call EXCEPT ![t] = c]
          /\ pc' = [pc EXCEPT ![t] = FirstStep(c.op)]
    /\ calls' = calls + 1
    /\ UNCHANGED <<branchVars, restVars, now, cache, cache_entry, expired_keys, result, at, sets, lastSet>>

\* An exception leaves the `with` block: the lock is released if held.
Raise(t) ==
    /\ pc' = [pc EXCEPT ![t] = "KeyError"]
    /\ lock' = IF lock = t THEN "free" ELSE lock

\* cache_service.py:16-17
GetCheck(t) ==
    /\ pc[t] = "get_check"
    /\ at' = [at EXCEPT ![t] = now]
    /\ IF call[t].key \notin DOMAIN cache
       THEN /\ result' = [result EXCEPT ![t] = None]
            /\ pc' = [pc EXCEPT ![t] = "release"]
       ELSE /\ pc' = [pc EXCEPT ![t] = "get_read"]
            /\ UNCHANGED result
    /\ UNCHANGED <<branchVars, restVars, now, cache, lock, call, cache_entry, expired_keys,
                   sets, lastSet, calls>>

\* cache_service.py:19
GetRead(t) ==
    /\ pc[t] = "get_read"
    /\ IF call[t].key \in DOMAIN cache
       THEN /\ cache_entry' = [cache_entry EXCEPT ![t] = cache[call[t].key]]
            /\ pc' = [pc EXCEPT ![t] = "get_cmp"]
            /\ UNCHANGED lock
       ELSE /\ Raise(t)
            /\ UNCHANGED cache_entry
    /\ UNCHANGED <<branchVars, restVars, now, cache, call, expired_keys, result, at, sets, lastSet, calls>>

\* cache_service.py:20 and 24
GetCmp(t) ==
    /\ pc[t] = "get_cmp"
    /\ at' = [at EXCEPT ![t] = now]
    /\ IF Expired(cache_entry[t], now)
       THEN /\ pc' = [pc EXCEPT ![t] = "get_del"]
            /\ UNCHANGED result
       ELSE /\ result' = [result EXCEPT ![t] = cache_entry[t].value]
            /\ pc' = [pc EXCEPT ![t] = "release"]
    /\ UNCHANGED <<branchVars, restVars, now, cache, lock, call, cache_entry, expired_keys,
                   sets, lastSet, calls>>

\* cache_service.py:21-22
GetDel(t) ==
    /\ pc[t] = "get_del"
    /\ IF call[t].key \in DOMAIN cache
       THEN /\ cache' = DictDel(cache, call[t].key)
            /\ result' = [result EXCEPT ![t] = None]
            /\ pc' = [pc EXCEPT ![t] = "release"]
            /\ UNCHANGED lock
       ELSE /\ Raise(t)
            /\ UNCHANGED <<cache, result>>
    /\ UNCHANGED <<branchVars, restVars, now, call, cache_entry, expired_keys, at, sets, lastSet, calls>>

\* cache_service.py:29-32
SetStore(t) ==
    /\ pc[t] = "set_store"
    /\ LET e == [value |-> call[t].value, expires_at |-> now + call[t].ttl]
       IN /\ cache' = DictPut(cache, call[t].key, e)
          /\ sets' = sets \cup {[key |-> call[t].key, entry |-> e]}
          /\ lastSet' = DictPut(lastSet, call[t].key, [entry |-> e, live |-> TRUE])
    /\ pc' = [pc EXCEPT ![t] = "release"]
    /\ UNCHANGED <<branchVars, restVars, now, lock, call, cache_entry, expired_keys, result, at, calls>>

\* history: a delete/clear of these keys intervened after their latest set
Intervene(ks) ==
    [k \in DOMAIN lastSet |->
        IF k \in ks THEN [lastSet[k] EXCEPT !.live = FALSE] ELSE lastSet[k]]

\* cache_service.py:37
DelCheck(t) ==
    /\ pc[t] = "del_check"
    /\ pc' = [pc EXCEPT ![t] =
                IF call[t].key \in DOMAIN cache THEN "del_del" ELSE "release"]
    /\ lastSet' = Intervene({call[t].key})
    /\ UNCHANGED <<branchVars, restVars, now, cache, lock, call, cache_entry, expired_keys, result, at,
                   sets, calls>>

\* cache_service.py:38
DelDel(t) ==
    /\ pc[t] = "del_del"
    /\ IF call[t].key \in DOMAIN cache
       THEN /\ cache' = DictDel(cache, call[t].key)
            /\ pc' = [pc EXCEPT ![t] = "release"]
            /\ UNCHANGED lock
       ELSE /\ Raise(t)
            /\ UNCHANGED cache
    /\ lastSet' = Intervene({call[t].key})
    /\ UNCHANGED <<branchVars, restVars, now, call, cache_entry, expired_keys, result, at, sets, calls>>

\* cache_service.py:43
Clear(t) ==
    /\ pc[t] = "clear"
    /\ cache' = << >>
    /\ lastSet' = Intervene(Keys)
    /\ pc' = [pc EXCEPT ![t] = "release"]
    /\ UNCHANGED <<branchVars, restVars, now, lock, call, cache_entry, expired_keys, result, at,
                   sets, calls>>

\* cache_service.py:48-52
CleanupScan(t) ==
    /\ pc[t] = "cl_scan"
    /\ expired_keys' = [expired_keys EXCEPT ![t] =
                          {k \in DOMAIN cache : now > cache[k].expires_at}]
    /\ pc' = [pc EXCEPT ![t] = "cl_del"]
    /\ UNCHANGED <<branchVars, restVars, now, cache, lock, call, cache_entry, result, at, sets, lastSet, calls>>

\* cache_service.py:53-54, one iteration of the loop
CleanupDel(t) ==
    /\ pc[t] = "cl_del"
    /\ IF expired_keys[t] = {}
       THEN /\ pc' = [pc EXCEPT ![t] = "release"]
            /\ UNCHANGED <<cache, lock, expired_keys>>
       ELSE \E k \in expired_keys[t] :
              /\ expired_keys' = [expired_keys EXCEPT ![t] = @ \ {k}]
              /\ IF k \in DOMAIN cache
                 THEN /\ cache' = DictDel(cache, k)
                      /\ UNCHANGED <<pc, lock>>
                 ELSE /\ Raise(t)
                      /\ UNCHANGED cache
    /\ UNCHANGED <<branchVars, restVars, now, call, cache_entry, result, at, sets, lastSet, calls>>

\* end of the `with self._lock:` block: the call returns `result` to its
\* caller, and its locals go out of scope
Release(t) ==
    /\ pc[t] = "release"
    /\ lock' = IF lock = t THEN "free" ELSE lock
    /\ pc' = [pc EXCEPT ![t] = "idle"]
    /\ call' = [call EXCEPT ![t] = NoCall]
    /\ cache_entry' = [cache_entry EXCEPT ![t] = NoEntry]
    /\ expired_keys' = [expired_keys EXCEPT ![t] = {}]
    /\ result' = [result EXCEPT ![t] = None]
    /\ at' = [at EXCEPT ![t] = 0]
    /\ UNCHANGED <<branchVars, restVars, now, cache, sets, lastSet, calls>>

CacheTick == Tick /\ UNCHANGED <<cacheVars, branchVars, restVars>>

CacheNext ==
    \/ CacheTick
    \/ \E t \in Threads : Invoke(t)
    \/ \E t \in Threads : GetCheck(t)
    \/ \E t \in Threads : GetRead(t)
    \/ \E t \in Threads : GetCmp(t)
    \/ \E t \in Threads : GetDel(t)
    \/ \E t \in Threads : SetStore(t)
    \/ \E t \in Threads : DelCheck(t)
    \/ \E t \in Threads : DelDel(t)
    \/ \E t \in Threads : Clear(t)
    \/ \E t \in Threads : CleanupScan(t)
    \/ \E t \in Threads : CleanupDel(t)
    \/ \E t \in Threads : Release(t)

(***************************************************************************)
(* Python str, as a sequence of one-character strings                      *)
(***************************************************************************)
\* the characters in use, in code-point order (the order sorted() compares by)

Chars == <<"\n", " ", "(", ")", "*", "-", "/", "0", "1", "2", "3", "4",
    "5", "6", "7", "8", "9", ">", "A", "B", "C", "D", "E", "F", "G", "H",
    "I", "J", "K", "L", "M", "N", "O", "P", "Q", "R", "S", "T", "U", "V",
    "W", "X", "Y", "Z", "_", "a", "b", "c", "d", "e", "f", "g", "h", "i",
    "j", "k", "l", "m", "n", "o", "p", "q", "r", "s", "t", "u", "v", "w",
    "x", "y", "z">>

Ord(c) == CHOOSE i \in 1..Len(Chars) : Chars[i] = c

UpperCase == {Chars[i] : i \in Ord("A")..Ord("Z")}
Whitespace == {" ", "\n"}

\* str.lower()
LowerChar(c) == IF c \in UpperCase THEN Chars[Ord(c) - Ord("A") + Ord("a")] ELSE c
Lower(s) == [i \in 1..Len(s) |-> LowerChar(s[i])]

\* s[n:]  (n >= 0)
From(s, n) == SubSeq(s, n + 1, Len(s))

\* s.startswith(p)
StartsWith(s, p) == Len(p) <= Len(s) /\ SubSeq(s, 1, Len(p)) = p

\* p in s
Contains(s, p) == \E i \in 0..(Len(s) - Len(p)) : SubSeq(s, i + 1, i + Len(p)) = p

\* s.strip()
Strip(s) ==
    LET black == {i \in 1..Len(s) : s[i] \notin Whitespace}
    IN IF black = {} THEN << >>
       ELSE SubSeq(s, CHOOSE i \in black : \A k \in black : i <= k,
                      CHOOSE i \in black : \A k \in black : k <= i)

\* s.split(sep) for a one-character sep: always at least one piece.
\* SplitFrom gives the pieces of s[start-1:].
RECURSIVE SplitFrom(_, _, _)
SplitFrom(s, sep, start) ==
    LET seps == {i \in start..Len(s) : s[i] = sep}
    IN IF seps = {} THEN <<SubSeq(s, start, Len(s))>>
       ELSE LET i == CHOOSE x \in seps : \A k \in seps : x <= k
            IN <<SubSeq(s, start, i - 1)>> \o SplitFrom(s, sep, i + 1)
Split(s, sep) == SplitFrom(s, sep, 1)

\* s.replace(old, new): every non-overlapping occurrence, left to right
RECURSIVE Replace(_, _, _)
Replace(s, old, new) ==
    IF s = << >> THEN << >>
    ELSE IF StartsWith(s, old) THEN new \o Replace(From(s, Len(old)), old, new)
    ELSE <<Head(s)>> \o Replace(Tail(s), old, new)

\* a < b, as Python compares str
RECURSIVE StrLess(_, _)
StrLess(a, b) ==
    IF b = << >> THEN FALSE
    ELSE IF a = << >> THEN TRUE
    ELSE IF Head(a) # Head(b) THEN Ord(Head(a)) < Ord(Head(b))
    ELSE StrLess(Tail(a), Tail(b))

\* sorted(S) for a set of str
RECURSIVE Sorted(_)
Sorted(S) ==
    IF S = {} THEN << >>
    ELSE LET m == CHOOSE x \in S : \A y \in S \ {x} : StrLess(x, y)
         IN <<m>> \o Sorted(S \ {m})

\* set(list)
ToSet(l) == {l[i] : i \in 1..Len(l)}

\* the string literals of branch_selector.py

s_dev == <<"d", "e", "v">>
s_main == <<"m", "a", "i", "n">>
s_master == <<"m", "a", "s", "t", "e", "r">>
s_HEAD == <<"H", "E", "A", "D">>
s_remotes_origin == <<"r", "e", "m", "o", "t", "e", "s", "/", "o", "r",
    "i", "g", "i", "n", "/">>
s_remotes == <<"r", "e", "m", "o", "t", "e", "s", "/">>
s_head_arrow == <<"H", "E", "A", "D", " ", "-", ">", " ">>

\* lines as `git branch -a` prints them

l_main == <<" ", " ", "m", "a", "i", "n">>
l_dev_current == <<"*", " ", "d", "e", "v">>
l_fix == <<" ", " ", "f", "i", "x">>
l_origin_HEAD == <<" ", " ", "r", "e", "m", "o", "t", "e", "s", "/", "o",
    "r", "i", "g", "i", "n", "/", "H", "E", "A", "D">>
l_origin_HEAD_arrow == <<" ", " ", "r", "e", "m", "o", "t", "e", "s", "/",
    "o", "r", "i", "g", "i", "n", "/", "H", "E", "A", "D", " ", "-", ">",
    " ", "o", "r", "i", "g", "i", "n", "/", "d", "e", "v">>
l_origin_dev == <<" ", " ", "r", "e", "m", "o", "t", "e", "s", "/", "o",
    "r", "i", "g", "i", "n", "/", "d", "e", "v">>
l_origin_main == <<" ", " ", "r", "e", "m", "o", "t", "e", "s", "/", "o",
    "r", "i", "g", "i", "n", "/", "m", "a", "i", "n">>
l_upstream_fix == <<" ", " ", "r", "e", "m", "o", "t", "e", "s", "/", "u",
    "p", "s", "t", "r", "e", "a", "m", "/", "f", "i", "x">>

\* the pattern literals of branch_selector.py:127-131
s_initial_upload == <<"-", "i", "n", "i", "t", "i", "a", "l", "-", "u",
    "p", "l", "o", "a", "d">>
s_proofreading_suffix == <<"-", "p", "r", "o", "o", "f", "r", "e", "a",
    "d", "i", "n", "g">>
s_translation_suffix == <<"-", "t", "r", "a", "n", "s", "l", "a", "t", "i",
    "o", "n">>
s_proofreading_prefix == <<"p", "r", "o", "o", "f", "r", "e", "a", "d",
    "i", "n", "g", "-">>
s_translation_prefix == <<"t", "r", "a", "n", "s", "l", "a", "t", "i", "o",
    "n", "-">>

(***************************************************************************)
(* BranchSelector                                                          *)
(***************************************************************************)
\* Optional[x]: None is Nothing, a value x is Some(x)
Nothing == << >>
Some(x) == <<x>>

\* bool(x) of an Optional[list]: None and [] are falsy
Truthy(o) == o # Nothing /\ o[1] # << >>

NoPath == "None"
RepoPath == "/repo"

\* branch_selector.py:16 and 36, in minutes
CacheDuration == 5
LocalCacheDuration == 1

\* branch_selector.py:51-61, one line of the listing: the names it appends
ParseLine(raw) ==
    LET stripped == Strip(raw)
        line == IF StartsWith(stripped, <<"*">>) THEN From(stripped, 2) ELSE stripped
    IN IF StartsWith(line, s_remotes_origin)
       THEN LET branch == Replace(line, s_remotes_origin, << >>)
            IN IF branch # s_HEAD THEN <<branch>> ELSE << >>
       ELSE <<line>>

RECURSIVE ParseLines(_)
ParseLines(ls) ==
    IF ls = << >> THEN << >> ELSE ParseLine(Head(ls)) \o ParseLines(Tail(ls))

\* ---- the listings and remote lists the calls are tried on ----
LinePool == <<l_dev_current, l_fix, l_main, l_origin_HEAD, l_origin_HEAD_arrow,
              l_origin_dev, l_origin_main, l_upstream_fix>>

\* the chosen lines of the pool, in the order git prints them, each ended by
\* a newline
RECURSIVE Listing(_, _)
Listing(I, i) ==
    IF i > Len(LinePool) THEN << >>
    ELSE (IF i \in I THEN LinePool[i] \o <<"\n">> ELSE << >>) \o Listing(I, i + 1)

Stdouts ==
    {Listing(I, 1) : I \in {J \in SUBSET (1..Len(LinePool)) : Cardinality(J) <= MaxLines}}

FewStdouts == {Listing({}, 1), Listing({4}, 1), Listing({1, 3, 6}, 1)}

\* branch_selector.py:49-64
ParseBranches(stdout) == Sorted(ToSet(ParseLines(Split(Strip(stdout), "\n"))))

\* the listings git prints here parsed once each; any other stdout is parsed
\* where it is read
ParsedListings == [stdout \in Stdouts \cup FewStdouts |-> ParseBranches(stdout)]

Parsed(stdout) ==
    IF stdout \in DOMAIN ParsedListings THEN ParsedListings[stdout]
    ELSE ParseBranches(stdout)

\* branch_selector.py:34-36
LocalCacheValid ==
    /\ local_branches_cache # Nothing
    /\ local_cache_time # Nothing
    /\ now - local_cache_time[1] < LocalCacheDuration

\* branch_selector.py:26-73.  env.exists: local_repo_path.exists();
\* env.git_ok: the subprocess succeeded; env.stdout: what it printed.
\* Gives the returned list, the local cache after the call, and whether the
\* listing command ran to completion.
get_local_branches(env) ==
    LET keep == [result |-> << >>, ran |-> FALSE,
                 local_branches_cache |-> local_branches_cache,
                 local_cache_time |-> local_cache_time]
    IN IF local_repo_path = NoPath \/ ~env.exists
       THEN keep
       ELSE IF LocalCacheValid
       THEN [keep EXCEPT !.result = local_branches_cache[1]]
       ELSE IF ~env.git_ok
       THEN keep
       ELSE LET branches == Parsed(env.stdout)
            IN [result |-> branches, ran |-> TRUE,
                local_branches_cache |-> Some(branches),
                local_cache_time |-> Some(now)]

\* branch_selector.py:107
Fallback == <<s_dev, s_main>>

\* branch_selector.py:79  `if local_branches:`
LocalWinsIfSeveral(local_branches) == Len(local_branches) > 1
LocalWins(local_branches) == local_branches # << >>

\* branch_selector.py:86-89
CacheValidThrough(force_refresh) ==
    /\ ~force_refresh
    /\ branches_cache # Nothing
    /\ cache_time # Nothing
    /\ now - cache_time[1] <= CacheDuration
CacheValid(force_refresh) ==
    /\ ~force_refresh
    /\ branches_cache # Nothing
    /\ cache_time # Nothing
    /\ now - cache_time[1] < CacheDuration

\* branch_selector.py:75-107.  env.api: "ok" (the remote lists env.names),
\* "repo_error" (get_repo raises) or "branches_error" (get_branches raises).
\* Gives the returned list, the selector's fields after the call, what the
\* local listing returned (local, ran), whether the remote API was called
\* (api) and whether it answered (fetched_ok).
get_branches(force_refresh, env) ==
    LET l == get_local_branches(env)
        base == [result |-> << >>, local |-> l.result, ran |-> l.ran,
                 local_branches_cache |-> l.local_branches_cache,
                 local_cache_time |-> l.local_cache_time,
                 branches_cache |-> branches_cache, cache_time |-> cache_time,
                 repo |-> repo, api |-> FALSE, fetched_ok |-> FALSE]
    IN IF LocalWins(l.result)
       THEN [base EXCEPT !.result = l.result]
       ELSE IF CacheValid(force_refresh)
       THEN [base EXCEPT !.result = branches_cache[1]]
       ELSE IF env.api = "ok"
       THEN [base EXCEPT !.result = env.names, !.api = TRUE, !.fetched_ok = TRUE,
                         !.repo = TRUE,
                         !.branches_cache = Some(env.names),
                         !.cache_time = Some(now)]
       ELSE [base EXCEPT !.result = IF Truthy(branches_cache)
                                    THEN branches_cache[1] ELSE Fallback,
                         !.api = TRUE,
                         !.repo = repo \/ env.api = "branches_error"]

(***************************************************************************)
(* fuzzywuzzy, as BranchSelector.fuzzy_search uses it:                     *)
(* process.extract(query, choices, scorer=fuzz.token_sort_ratio, limit=n)  *)
(***************************************************************************)
Max(a, b) == IF a >= b THEN a ELSE b
Min(a, b) == IF a <= b THEN a ELSE b

\* l[:stop] of a Python list, for any integer stop
PySlice(l, stop) ==
    IF stop >= 0 THEN SubSeq(l, 1, Min(stop, Len(l)))
    ELSE SubSeq(l, 1, Max(Len(l) + stop, 0))

\* [x for x in l if x not in seen]
RECURSIVE Without(_, _)
Without(l, seen) ==
    IF l = << >> THEN << >>
    ELSE (IF Head(l) \in seen THEN << >> ELSE <<Head(l)>>) \o Without(Tail(l), seen)

\* utils.full_process: every character that is not a letter, a digit or "_"
\* becomes a space; lower case; strip
WordChars == {Chars[i] : i \in Ord("0")..Ord("9")} \cup {Chars[i] : i \in Ord("A")..Ord("z")}
FullProcess(s) ==
    Strip(Lower([i \in 1..Len(s) |-> IF s[i] \in WordChars THEN s[i] ELSE " "]))

\* s.split(): the maximal runs of non-whitespace characters.
\* TokensFrom gives the tokens of s[start-1:].
RECURSIVE TokensFrom(_, _)
TokensFrom(s, start) ==
    LET black == {i \in start..Len(s) : s[i] \notin Whitespace}
    IN IF black = {} THEN << >>
       ELSE LET first == CHOOSE i \in black : \A k \in black : i <= k
                white == {i \in first..Len(s) : s[i] \in Whitespace}
                stop == IF white = {} THEN Len(s) + 1
                        ELSE CHOOSE i \in white : \A k \in white : i <= k
            IN <<SubSeq(s, first, stop - 1)>> \o TokensFrom(s, stop)
Tokens(s) == TokensFrom(s, 1)

\* sorted(list of str), duplicates kept
RECURSIVE Insert(_, _)
Insert(x, l) ==
    IF l = << >> THEN <<x>>
    ELSE IF StrLess(x, Head(l)) THEN <<x>> \o l
    ELSE <<Head(l)>> \o Insert(x, Tail(l))
RECURSIVE SortList(_)
SortList(l) == IF l = << >> THEN << >> ELSE Insert(Head(l), SortList(Tail(l)))

\* " ".join(list of str)
RECURSIVE Join(_)
Join(l) ==
    IF l = << >> THEN << >>
    ELSE IF Len(l) = 1 THEN Head(l)
    ELSE Head(l) \o <<" ">> \o Join(Tail(l))

\* fuzz._process_and_sort
ProcessAndSort(s) == Strip(Join(SortList(Tokens(FullProcess(s)))))

\* the length of the common prefix of a[i:] and b[j:]  (i, j from 1)
RECURSIVE CommonLen(_, _, _, _)
CommonLen(a, b, i, j) ==
    IF i > Len(a) \/ j > Len(b) \/ a[i] # b[j] THEN 0
    ELSE 1 + CommonLen(a, b, i + 1, j + 1)

\* difflib.SequenceMatcher.find_longest_match on whole a and b: the longest
\* common block, the one starting earliest in a, then earliest in b
LongestMatch(a, b) ==
    LET len == [i \in 1..Len(a), j \in 1..Len(b) |-> CommonLen(a, b, i, j)]
        k == CHOOSE m \in 0..Len(a) :
                 /\ \E i \in 1..Len(a), j \in 1..Len(b) : len[i, j] = m
                 /\ \A i \in 1..Len(a), j \in 1..Len(b) : len[i, j] <= m
        i == CHOOSE x \in 1..Len(a) :
                 /\ \E j \in 1..Len(b) : len[x, j] = k
                 /\ \A y \in 1..(x - 1) : \A j \in 1..Len(b) : len[y, j] # k
        j == CHOOSE x \in 1..Len(b) :
                 /\ len[i, x] = k
                 /\ \A y \in 1..(x - 1) : len[i, y] # k
    IN [i |-> i, j |-> j, k |-> k]

\* difflib.SequenceMatcher.get_matching_blocks: the total size of the blocks
RECURSIVE MatchingDifflib(_, _)
MatchingDifflib(a, b) ==
    IF a = << >> \/ b = << >> THEN 0
    ELSE LET m == LongestMatch(a, b)
         IN IF m.k = 0 THEN 0
            ELSE m.k + MatchingDifflib(SubSeq(a, 1, m.i - 1), SubSeq(b, 1, m.j - 1))
                     + MatchingDifflib(From(a, m.i + m.k - 1), From(b, m.j + m.k - 1))

\* python-Levenshtein ratio: (lensum - distance)/lensum with substitutions
\* costing 2, i.e. 2*LCS/lensum.  One row of the LCS table, then all rows.
RECURSIVE LcsRow(_, _, _, _)
LcsRow(prev, c, b, acc) ==
    LET j == Len(acc)
    IN IF j > Len(b) THEN acc
       ELSE LcsRow(prev, c, b,
                   Append(acc, IF c = b[j] THEN prev[j] + 1
                               ELSE Max(prev[j + 1], acc[j])))
RECURSIVE LcsRows(_, _, _)
LcsRows(a, b, prev) ==
    IF a = << >> THEN prev[Len(b) + 1]
    ELSE LcsRows(Tail(a), b, LcsRow(prev, Head(a), b, <<0>>))
MatchingLevenshtein(a, b) == LcsRows(a, b, [j \in 1..(Len(b) + 1) |-> 0])

\* int(round(100 * 2.0 * m / t)), Python 3 rounding half to even
Percent(m, t) ==
    LET q == (200 * m) \div t
        r == (200 * m) % t
    IN IF 2 * r > t \/ (2 * r = t /\ q % 2 = 1) THEN q + 1 ELSE q

\* fuzz.ratio, with the SequenceMatcher the installation provides
Ratio(s1, s2) ==
    IF s1 = << >> \/ s2 = << >> THEN 0
    ELSE Percent(IF matcher = "difflib" THEN MatchingDifflib(s1, s2)
                 ELSE MatchingLevenshtein(s1, s2),
                 Len(s1) + Len(s2))

\* fuzz.token_sort_ratio
token_sort_ratio(s1, s2) == Ratio(ProcessAndSort(s1), ProcessAndSort(s2))

\* heapq.nlargest(n, pairs, key=score): the n best, best first, equal
\* scores in the order given
RECURSIVE Best(_, _)
Best(pairs, n) ==
    IF n <= 0 \/ pairs = << >> THEN << >>
    ELSE LET top == CHOOSE i \in 1..Len(pairs) :
                       /\ \A k \in 1..Len(pairs) : pairs[k].score <= pairs[i].score
                       /\ \A k \in 1..(i - 1) : pairs[k].score < pairs[i].score
         IN <<pairs[top]>> \o Best(SubSeq(pairs, 1, top - 1) \o From(pairs, top), n - 1)

\* process.extract with scorer=fuzz.token_sort_ratio: (choice, score) pairs
Extract(query, choices, n) ==
    Best([k \in 1..Len(choices) |->
             [choice |-> choices[k], score |-> token_sort_ratio(query, choices[k])]],
         n)

(***************************************************************************)
(* BranchSelector.fuzzy_search                                             *)
(***************************************************************************)
\* branch_selector.py:118
common_branches_main_first == <<s_main, s_dev, s_master>>
common_branches == <<s_dev, s_main, s_master>>

\* branch_selector.py:126-132
language_patterns(lang) ==
    <<lang \o s_initial_upload, lang \o s_proofreading_suffix,
      lang \o s_translation_suffix, s_proofreading_prefix \o lang,
      s_translation_prefix \o lang>>

\* [x for x in l if x in S]
RECURSIVE Only(_, _)
Only(l, S) ==
    IF l = << >> THEN << >>
    ELSE (IF Head(l) \in S THEN <<Head(l)>> ELSE << >>) \o Only(Tail(l), S)

\* branch_selector.py:135-137, the inner loop for one pattern
RECURSIVE AddMatching(_, _, _)
AddMatching(suggestions, pattern, branches) ==
    IF branches = << >> THEN suggestions
    ELSE AddMatching(
             IF Contains(Lower(Head(branches)), pattern)
                /\ Head(branches) \notin ToSet(suggestions)
             THEN Append(suggestions, Head(branches)) ELSE suggestions,
             pattern, Tail(branches))

\* branch_selector.py:134-137
RECURSIVE AddPatterns(_, _, _)
AddPatterns(suggestions, patterns, branches) ==
    IF patterns = << >> THEN suggestions
    ELSE AddPatterns(AddMatching(suggestions, Head(patterns), branches),
                     Tail(patterns), branches)

\* branch_selector.py:141  `other_branches[:limit-len(suggestions)]`
OthersToFill(other_branches, limit, suggestions) ==
    PySlice(other_branches, limit - Len(suggestions))

\* branch_selector.py:113-143, the empty query.  context is Nothing or
\* Some(language)
Suggestions(branches, limit, context) ==
    LET common == Only(common_branches, ToSet(branches))
        suggestions == IF context # Nothing
                       THEN AddPatterns(common, language_patterns(context[1]), branches)
                       ELSE common
        other_branches == Without(branches, ToSet(suggestions))
    IN PySlice(suggestions \o OthersToFill(other_branches, limit, suggestions), limit)

\* branch_selector.py:147
ExactFirstOne(query, branches, limit) ==
    <<query>> \o PySlice(Without(branches, {query}), limit)
ExactFirst(query, branches, limit) ==
    <<query>> \o PySlice(Without(branches, {query}), limit - 1)

\* [b for b in l if P(b)] for the two string tests of lines 153 and 157
RECURSIVE PrefixMatches(_, _)
PrefixMatches(l, q) ==
    IF l = << >> THEN << >>
    ELSE (IF StartsWith(Lower(Head(l)), Lower(q)) THEN <<Head(l)>> ELSE << >>)
         \o PrefixMatches(Tail(l), q)
RECURSIVE ContainsMatches(_, _, _)
ContainsMatches(l, q, results) ==
    IF l = << >> THEN << >>
    ELSE (IF Contains(Lower(Head(l)), Lower(q)) /\ Head(l) \notin ToSet(results)
          THEN <<Head(l)>> ELSE << >>)
         \o ContainsMatches(Tail(l), q, results)

\* the similarity floor of branch_selector.py:164
Floor == 40

\* [match[0] for match in fuzzy_matches if match[1] > 40]
RECURSIVE AboveFloor(_), AtOrAboveFloor(_)
AtOrAboveFloor(fuzzy_matches) ==
    IF fuzzy_matches = << >> THEN << >>
    ELSE (IF Head(fuzzy_matches).score >= Floor THEN <<Head(fuzzy_matches).choice>>
          ELSE << >>)
         \o AtOrAboveFloor(Tail(fuzzy_matches))
AboveFloor(fuzzy_matches) ==
    IF fuzzy_matches = << >> THEN << >>
    ELSE (IF Head(fuzzy_matches).score > Floor THEN <<Head(fuzzy_matches).choice>>
          ELSE << >>)
         \o AboveFloor(Tail(fuzzy_matches))

\* branch_selector.py:149-166
Tiers(query, branches, limit) ==
    LET prefix_matches == PrefixMatches(branches, query)
        contains_matches == ContainsMatches(branches, query, prefix_matches)
        results == prefix_matches \o contains_matches
        remaining_branches == Without(branches, ToSet(results))
    IN PySlice(IF Len(results) < limit
               THEN results \o AboveFloor(Extract(query, remaining_branches,
                                                  limit - Len(results)))
               ELSE results,
               limit)

\* branch_selector.py:113-166, on the resolved list
Rank(branches, query, limit, context) ==
    IF query = << >> THEN Suggestions(branches, limit, context)
    ELSE IF query \in ToSet(branches) THEN ExactFirst(query, branches, limit)
    ELSE Tiers(query, branches, limit)

\* branch_selector.py:109-166.  resolved is the outcome of the call
\* self.get_branches() of line 111; its list is ranked, its effects are kept.
fuzzy_search(query, limit, context, resolved) ==
    [resolved EXCEPT !.result = Rank(resolved.result, query, limit, context)]
    @@ [branches |-> resolved.result]

\* branch_selector.py:168-171, on the list self.get_branches() resolved
branch_exists_first(branch_name, branches) ==
    branches # << >> /\ branches[1] = branch_name
branch_exists(branch_name, branches) == branch_name \in ToSet(branches)

\* The record of a call: op, its arguments (force, query, limit, context,
\* branch_name), what the local listing did (ran, stdout, its result local),
\* whether the remote API was called (api) and answered (api_ok, names), the
\* list get_branches resolved for a search (branches), and the value
\* returned: the list result, or the truth value exists of branch_exists,
\* for which result keeps the list it resolved.
NoRet ==
    [op |-> "none", force |-> FALSE, ran |-> FALSE, stdout |-> << >>,
     local |-> << >>, api |-> FALSE, api_ok |-> FALSE, names |-> << >>,
     query |-> << >>, limit |-> 0, context |-> Nothing, branches |-> << >>,
     result |-> << >>, branch_name |-> << >>, exists |-> FALSE]

BranchInit ==
    /\ local_repo_path \in {NoPath, RepoPath}
    /\ local_branches_cache = Nothing
    /\ local_cache_time = Nothing
    /\ branches_cache = Nothing
    /\ cache_time = Nothing
    /\ repo = FALSE
    /\ fetched = Nothing
    /\ fetched_at = Nothing
    /\ matcher = "difflib"
    /\ ret = NoRet

\* What the surroundings of a call can do: the path may be missing, the
\* listing command may fail or print stdout; the remote API may fail or list
\* names.
NoEnv == [exists |-> FALSE, git_ok |-> FALSE, stdout |-> << >>,
          api |-> "repo_error", names |-> << >>]

\* the local surroundings get_local_branches consults from this state
LocalEnvs(stdouts) ==
    IF local_repo_path = NoPath THEN {NoEnv}
    ELSE IF LocalCacheValid THEN {NoEnv, [NoEnv EXCEPT !.exists = TRUE]}
    ELSE {NoEnv, [NoEnv EXCEPT !.exists = TRUE]}
         \cup {[NoEnv EXCEPT !.exists = TRUE, !.git_ok = TRUE, !.stdout = s] :
                  s \in stdouts}

\* the remote answers get_branches consults after local surroundings e; an
\* already loaded repo cannot fail to load
RemoteEnvs(e, force_refresh, lists) ==
    IF LocalWins(get_local_branches(e).result) \/ CacheValid(force_refresh)
    THEN {e}
    ELSE (IF repo THEN {} ELSE {e})
         \cup {[e EXCEPT !.api = "branches_error"]}
         \cup {[e EXCEPT !.api = "ok", !.names = n] : n \in lists}

Envs(force_refresh, stdouts, lists) ==
    UNION {RemoteEnvs(e, force_refresh, lists) : e \in LocalEnvs(stdouts)}

\* the part of ret that every call through get_branches fills in
RetOf(r, env) ==
    [NoRet EXCEPT !.ran = r.ran,
                  !.stdout = IF r.ran THEN env.stdout ELSE << >>,
                  !.local = r.local,
                  !.api = r.api,
                  !.api_ok = r.fetched_ok,
                  !.names = IF r.fetched_ok THEN env.names ELSE << >>,
                  !.result = r.result]

\* the selector's fields after a call through get_branches; fetched and
\* fetched_at keep what the remote API last answered, and when
Store(r, env) ==
    /\ local_branches_cache' = r.local_branches_cache
    /\ local_cache_time' = r.local_cache_time
    /\ branches_cache' = r.branches_cache
    /\ cache_time' = r.cache_time
    /\ repo' = r.repo
    /\ fetched' = IF r.fetched_ok THEN Some(env.names) ELSE fetched
    /\ fetched_at' = IF r.fetched_ok THEN Some(now) ELSE fetched_at

\* a caller invokes get_local_branches()
GetLocalBranches(stdouts) ==
    \E env \in LocalEnvs(stdouts) :
        \E r \in {get_local_branches(env)} :
           /\ local_branches_cache' = r.local_branches_cache
           /\ local_cache_time' = r.local_cache_time
           /\ ret' = [NoRet EXCEPT !.op = "get_local_branches",
                                   !.ran = r.ran,
                                   !.stdout = IF r.ran THEN env.stdout ELSE << >>,
                                   !.local = r.result,
                                   !.result = r.result]
           /\ UNCHANGED <<now, cacheVars, restVars, local_repo_path, branches_cache,
                          cache_time, repo, fetched, fetched_at, matcher>>

\* a caller invokes get_branches(force_refresh)
GetBranches(forces, stdouts, lists) ==
    \E force_refresh \in forces :
      \E env \in Envs(force_refresh, stdouts, lists) :
        \E r \in {get_branches(force_refresh, env)} :
           /\ Store(r, env)
           /\ ret' = [RetOf(r, env) EXCEPT !.op = "get_branches",
                                           !.force = force_refresh]
           /\ UNCHANGED <<now, cacheVars, restVars, local_repo_path, matcher>>

\* a caller invokes fuzzy_search(query, limit, context)
FuzzySearch(queries, contexts, stdouts, lists) ==
    \E env \in Envs(FALSE, stdouts, lists) :
      \E resolved \in {get_branches(FALSE, env)} :
        \E query \in queries, limit \in 0..MaxLimit, context \in contexts :
          \E r \in {fuzzy_search(query, limit, context, resolved)} :
              /\ Store(r, env)
              /\ ret' = [RetOf(r, env) EXCEPT !.op = "fuzzy_search",
                                              !.query = query,
                                              !.limit = limit,
                                              !.context = context,
                                              !.branches = r.branches]
              /\ UNCHANGED <<now, cacheVars, restVars, local_repo_path, matcher>>

\* a caller invokes branch_exists(branch_name)
BranchExists(branch_names, stdouts, lists) ==
    \E env \in Envs(FALSE, stdouts, lists), branch_name \in branch_names :
        \E r \in {get_branches(FALSE, env)} :
           /\ Store(r, env)
           /\ ret' = [RetOf(r, env) EXCEPT
                         !.op = "branch_exists",
                         !.branch_name = branch_name,
                         !.exists = branch_exists(branch_name, r.result)]
           /\ UNCHANGED <<now, cacheVars, restVars, local_repo_path, matcher>>

s_fix == <<"f", "i", "x">>
RemoteLists == {<< >>, <<s_main, s_dev>>, <<s_dev, s_fix>>}

\* the names, queries and contexts fuzzy_search is tried on
s_es_translation == <<"e", "s", "-", "t", "r", "a", "n", "s", "l", "a", "t", "i", "o", "n">>
NamePool == {s_dev, s_main, s_master, s_es_translation, s_fix}

\* the lists without repetition of at most n names of the pool
RECURSIVE ListsOf(_)
ListsOf(n) ==
    IF n = 0 THEN {<< >>}
    ELSE LET shorter == ListsOf(n - 1)
         IN shorter \cup {Append(l, x) : l \in shorter, x \in NamePool}
FuzzyLists == {l \in ListsOf(MaxBranches) : Cardinality(ToSet(l)) = Len(l)}

Queries == {<< >>, s_dev, <<"D", "E", "V">>, <<"a", "i">>, <<"e">>, <<"m", "i", "a", "n">>}
Contexts == {Nothing, Some(<<"e", "s">>)}

LocalTick == Tick /\ UNCHANGED <<cacheVars, branchVars, restVars>>

LocalNext ==
    \/ LocalTick
    \/ GetLocalBranches(Stdouts)

BranchTick ==
    /\ now < MaxTime
    /\ now' = now + 1
    /\ UNCHANGED <<cacheVars, branchVars, restVars>>

BranchNext ==
    \/ BranchTick
    \/ GetBranches(BOOLEAN, FewStdouts, RemoteLists)

\* get_branches calls as in BranchNext, closed by one branch_exists call
BranchNames == {s_dev, s_master}
ExistsNext ==
    \/ ret.op # "branch_exists" /\ BranchTick
    \/ ret.op # "branch_exists" /\ GetBranches(BOOLEAN, FewStdouts, RemoteLists)
    \/ ret.op # "branch_exists" /\ BranchExists(BranchNames, FewStdouts, RemoteLists)

\* ---- app.py: the branch endpoints.  A request is served in two steps, the
\* selector it builds and the call it makes on it; nothing comes between.
\* app.py:29-35 with branch_selector.py:10-18: get_branch_selector() builds
\* a BranchSelector, whose caches and repo start unset
GetBranchSelector ==
    /\ local_branches_cache' = Nothing
    /\ local_cache_time' = Nothing
    /\ branches_cache' = Nothing
    /\ cache_time' = Nothing
    /\ repo' = FALSE
    /\ ret' = [NoRet EXCEPT !.op = "get_branch_selector"]
    /\ UNCHANGED <<now, cacheVars, restVars, local_repo_path, matcher,
                   fetched, fetched_at>>

\* fuzzy_search's default limit, which the route leaves as it is
DefaultLimit == 10

\* GET /api/branches/search?q=..&lang=.. : app.py:143-158 after the selector
\* is built
ApiBranchSearch(queries, langs, stdouts, lists) ==
    \E env \in Envs(FALSE, stdouts, lists) :
      \E resolved \in {get_branches(FALSE, env)} :
        \E query \in queries, language \in langs :
          \E context \in {IF language # << >> THEN Some(language) ELSE Nothing} :
            \E r \in {fuzzy_search(query, DefaultLimit, context, resolved)} :
              /\ Store(r, env)
              /\ ret' = [RetOf(r, env) EXCEPT !.op = "api_branch_search",
                                              !.query = query,
                                              !.limit = DefaultLimit,
                                              !.context = context,
                                              !.branches = r.branches]
              /\ UNCHANGED <<now, cacheVars, restVars, local_repo_path, matcher>>

\* GET /api/branches/validate/<branch_name> : app.py:160-171 after the
\* selector is built
ApiValidateBranch(branch_names, stdouts, lists) ==
    \E env \in Envs(FALSE, stdouts, lists), branch_name \in branch_names :
        \E r \in {get_branches(FALSE, env)} :
           /\ Store(r, env)
           /\ ret' = [RetOf(r, env) EXCEPT
                         !.op = "api_validate_branch",
                         !.branch_name = branch_name,
                         !.exists = branch_exists(branch_name, r.result)]
           /\ UNCHANGED <<now, cacheVars, restVars, local_repo_path, matcher>>

BuiltSelector == ret.op = "get_branch_selector"
RoutesNext ==
    \/ ~BuiltSelector /\ BranchTick
    \/ ~BuiltSelector /\ GetBranchSelector
    \/ BuiltSelector
          /\ ApiBranchSearch({<< >>, s_dev}, {<< >>, <<"e", "s">>}, FewStdouts, RemoteLists)
    \/ BuiltSelector /\ ApiValidateBranch(BranchNames, FewStdouts, RemoteLists)

\* a selector without a repository path is tried on every remote list of the
\* pool, one with a path on its listings and a few remote lists
ListsHere == IF local_repo_path = NoPath THEN FuzzyLists ELSE RemoteLists

\* one search per behaviour, on a fresh selector or on one whose caches an
\* earlier get_branches call has filled

FuzzyNext ==
    \/ ret.op = "none" /\ GetBranches({FALSE}, FewStdouts, ListsHere)
    \/ ret.op # "fuzzy_search" /\ FuzzySearch(Queries, Contexts, FewStdouts, ListsHere)

\* GET /api/branches/search?q=&lang=L: app.py:147-155 hands the lang
\* parameter to fuzzy_search as it came, in any casing
s_proofreading_ES == <<"p", "r", "o", "o", "f", "r", "e", "a", "d", "i", "n", "g", "-", "E", "S">>
CasedContexts == {Some(<<"e", "s">>), Some(<<"E", "S">>)}
SuggestLists ==
    {l \in UNION {[1..n -> {s_dev, s_fix, s_es_translation, s_proofreading_ES}] :
                    n \in 0..MaxBranches} : Cardinality(ToSet(l)) = Len(l)}
SuggestNext ==
    \/ ret.op = "none" /\ GetBranches({FALSE}, FewStdouts, SuggestLists)
    \/ ret.op # "fuzzy_search"
          /\ FuzzySearch({<< >>}, CasedContexts, FewStdouts, SuggestLists)

(***************************************************************************)
(* app.py: the language endpoints.  A catalog is a list of entries         *)
(* code, name, display, searchText; now counts hours here.                 *)
(***************************************************************************)
\* config.py:46-74, the languages built in, as (code, name) pairs
DefaultLanguages == <<
    <<<<"c", "s">>,
      <<"C", "z", "e", "c", "h">>>>,
    <<<<"d", "e">>,
      <<"G", "e", "r", "m", "a", "n">>>>,
    <<<<"e", "n">>,
      <<"E", "n", "g", "l", "i", "s", "h">>>>,
    <<<<"e", "s">>,
      <<"S", "p", "a", "n", "i", "s", "h">>>>,
    <<<<"e", "t">>,
      <<"E", "s", "t", "o", "n", "i", "a", "n">>>>,
    <<<<"f", "a">>,
      <<"F", "a", "r", "s", "i">>>>,
    <<<<"f", "i">>,
      <<"F", "i", "n", "n", "i", "s", "h">>>>,
    <<<<"f", "r">>,
      <<"F", "r", "e", "n", "c", "h">>>>,
    <<<<"h", "i">>,
      <<"H", "i", "n", "d", "i">>>>,
    <<<<"i", "d">>,
      <<"I", "n", "d", "o", "n", "e", "s", "i", "a", "n">>>>,
    <<<<"i", "t">>,
      <<"I", "t", "a", "l", "i", "a", "n">>>>,
    <<<<"j", "a">>,
      <<"J", "a", "p", "a", "n", "e", "s", "e">>>>,
    <<<<"n", "b", "-", "N", "O">>,
      <<"N", "o", "r", "w", "e", "g", "i", "a", "n">>>>,
    <<<<"n", "l">>,
      <<"D", "u", "t", "c", "h">>>>,
    <<<<"p", "l">>,
      <<"P", "o", "l", "i", "s", "h">>>>,
    <<<<"p", "t">>,
      <<"P", "o", "r", "t", "u", "g", "u", "e", "s", "e">>>>,
    <<<<"r", "n">>,
      <<"R", "u", "n", "d", "i">>>>,
    <<<<"r", "o">>,
      <<"R", "o", "m", "a", "n", "i", "a", "n">>>>,
    <<<<"r", "u">>,
      <<"R", "u", "s", "s", "i", "a", "n">>>>,
    <<<<"s", "i">>,
      <<"S", "i", "n", "h", "a", "l", "a">>>>,
    <<<<"s", "r", "-", "L", "a", "t", "n">>,
      <<"S", "e", "r", "b", "i", "a", "n">>>>,
    <<<<"s", "v">>,
      <<"S", "w", "e", "d", "i", "s", "h">>>>,
    <<<<"s", "w">>,
      <<"S", "w", "a", "h", "i", "l", "i">>>>,
    <<<<"t", "h">>,
      <<"T", "h", "a", "i">>>>,
    <<<<"v", "i">>,
      <<"V", "i", "e", "t", "n", "a", "m", "e", "s", "e">>>>,
    <<<<"z", "h", "-", "H", "a", "n", "s">>,
      <<"C", "h", "i", "n", "e", "s", "e", " ", "S", "i", "m", "p", "l", "i", "f", "i", "e", "d">>>>,
    <<<<"z", "h", "-", "H", "a", "n", "t">>,
      <<"C", "h", "i", "n", "e", "s", "e", " ", "T", "r", "a", "d", "i", "t", "i", "o", "n", "a", "l">>>>>>

\* app.py:181-186 and 243-248, one entry
LanguageEntry(code, name) ==
    [code |-> code, name |-> name,
     display |-> name \o <<" ", "(">> \o code \o <<")">>,
     searchText |-> Lower(name) \o <<" ">> \o Lower(code)]

\* app.py:179-186, 240-248, 255-260: the entries of a list of pairs
Catalog(pairs) == [i \in 1..Len(pairs) |-> LanguageEntry(pairs[i][1], pairs[i][2])]

\* the 10 of `[:10]`
ResultLimit == 10

\* the ttl of app.py:19, in hours
WeblateTtl == 24

\* results.sort(key=lambda x: x[1], reverse=True): stable, best first
SortWorstFirst(results) ==
    LET b == Best(results, Len(results))
    IN [i \in 1..Len(b) |-> b[Len(b) + 1 - i]]
SortByScore(results) == Best(results, Len(results))

\* app.py:198-208
score_code_prefix_first(l, query) ==
    IF StartsWith(Lower(l.code), query) THEN 90
    ELSE IF Lower(l.code) = query THEN 100
    ELSE IF StartsWith(Lower(l.name), query) THEN 80
    ELSE IF Contains(Lower(l.name), query) THEN 70
    ELSE 60
score(l, query) ==
    IF Lower(l.code) = query THEN 100
    ELSE IF StartsWith(Lower(l.code), query) THEN 90
    ELSE IF StartsWith(Lower(l.name), query) THEN 80
    ELSE IF Contains(Lower(l.name), query) THEN 70
    ELSE 60

\* app.py:188-213, on the list built from Config.LANGUAGES
language_search(languages, query) ==
    IF query = << >> THEN PySlice(languages, ResultLimit)
    ELSE LET hits == SelectSeq(languages, LAMBDA l : Contains(l.searchText, query))
             results == [i \in 1..Len(hits) |->
                            [choice |-> hits[i], score |-> score(hits[i], query)]]
             top == PySlice(SortByScore(results), ResultLimit)
         IN [i \in 1..Len(top) |-> top[i].choice]

\* app.py:282-292
weblate_score(l, query) ==
    IF Lower(l.code) = query THEN 100
    ELSE IF StartsWith(Lower(l.code), query) THEN 90
    ELSE IF StartsWith(Lower(l.name), query) THEN 80
    ELSE IF Contains(Lower(l.name), query) THEN 70
    ELSE 60

\* app.py:272-297, on the list api_weblate_languages() answered
weblate_language_search(all_languages, query) ==
    IF query = << >> THEN PySlice(all_languages, ResultLimit)
    ELSE LET hits == SelectSeq(all_languages, LAMBDA l : Contains(l.searchText, query))
             results == [i \in 1..Len(hits) |->
                            [choice |-> hits[i], score |-> weblate_score(hits[i], query)]]
             top == PySlice(SortByScore(results), ResultLimit)
         IN [i \in 1..Len(top) |-> top[i].choice]

\* app.py:230-233
WeblateCacheValidThrough ==
    /\ weblate_languages_cache.data # Nothing
    /\ weblate_languages_cache.last_updated # Nothing
    /\ now - weblate_languages_cache.last_updated[1] <= WeblateTtl
WeblateCacheValid ==
    /\ weblate_languages_cache.data # Nothing
    /\ weblate_languages_cache.last_updated # Nothing
    /\ now - weblate_languages_cache.last_updated[1] < WeblateTtl

\* app.py:255-261, the answer when the fetch raised
StaticFallbackEmpty == << >>
StaticFallback == Catalog(LANGUAGES)

\* app.py:226-261.  answer is what requests.get and raise_for_status did:
\* ok with the (code, name) pairs of the results, or a failure.  Gives the
\* list answered, the cache after the call and whether a fetch was made.
api_weblate_languages(answer) ==
    IF WeblateCacheValid
    THEN [languages |-> weblate_languages_cache.data[1], fetch |-> FALSE,
          fetch_ok |-> FALSE, cache |-> weblate_languages_cache]
    ELSE IF answer.ok
    THEN [languages |-> Catalog(answer.results), fetch |-> TRUE, fetch_ok |-> TRUE,
          cache |-> [data |-> Some(Catalog(answer.results)),
                     last_updated |-> Some(now)]]
    ELSE [languages |-> StaticFallback, fetch |-> TRUE, fetch_ok |-> FALSE,
          cache |-> weblate_languages_cache]

\* the record of a request to a language endpoint: the endpoint, the q
\* parameter, whether a fetch was made and succeeded, the catalog searched or
\* answered, the status of the response and the list in it
NoLang == [op |-> "none", q |-> << >>, fetch |-> FALSE, fetch_ok |-> FALSE,
           catalog |-> << >>, status |-> 0, languages |-> << >>]

AppIdle ==
    /\ LANGUAGES = DefaultLanguages
    /\ weblate_languages_cache = [data |-> Nothing, last_updated |-> Nothing]
    /\ answered = NoLang

\* the answers of the remote API that this state consults
Answers(catalogs) ==
    IF WeblateCacheValid THEN {[ok |-> FALSE, results |-> << >>]}
    ELSE {[ok |-> FALSE, results |-> << >>]} \cup {[ok |-> TRUE, results |-> c] : c \in catalogs}

\* GET /api/languages/search?q=...
ApiLanguageSearch(qs) ==
    \E q \in qs :
        /\ answered' = [NoLang EXCEPT !.op = "language_search", !.q = q,
                                  !.catalog = Catalog(LANGUAGES),
                                  !.status = 200,
                                  !.languages = language_search(Catalog(LANGUAGES), Lower(q))]
        /\ UNCHANGED <<now, cacheVars, branchVars, LANGUAGES, weblate_languages_cache, link, moreVars>>

\* GET /api/weblate/languages
ApiWeblateLanguages(catalogs) ==
    \E answer \in Answers(catalogs) :
        \E r \in {api_weblate_languages(answer)} :
            /\ weblate_languages_cache' = r.cache
            /\ answered' = [NoLang EXCEPT !.op = "weblate_languages",
                                      !.fetch = r.fetch, !.fetch_ok = r.fetch_ok,
                                      !.catalog = r.languages,
                                      !.status = 200,
                                      !.languages = r.languages]
            /\ UNCHANGED <<now, cacheVars, branchVars, LANGUAGES, link, moreVars>>

\* GET /api/weblate/languages/search?q=...
ApiWeblateLanguageSearch(qs, catalogs) ==
    \E answer \in Answers(catalogs), q \in qs :
        \E r \in {api_weblate_languages(answer)} :
            /\ weblate_languages_cache' = r.cache
            /\ answered' = [NoLang EXCEPT !.op = "weblate_language_search", !.q = q,
                                      !.fetch = r.fetch, !.fetch_ok = r.fetch_ok,
                                      !.catalog = r.languages,
                                      !.status = 200,
                                      !.languages =
                                          weblate_language_search(r.languages, Lower(q))]
            /\ UNCHANGED <<now, cacheVars, branchVars, LANGUAGES, link, moreVars>>

\* the pairs, catalogs and queries the endpoints are tried on
p_es == <<<<"e", "s">>, <<"S", "p", "a", "n", "i", "s", "h">>>>
p_es_AR == <<<<"e", "s", "-", "A", "R">>, <<"S", "p", "a", "n", "i", "s", "h", " ", "A", "R">>>>
p_et == <<<<"e", "t">>, <<"E", "s", "t", "o", "n", "i", "a", "n">>>>
p_pt == <<<<"p", "t">>, <<"P", "o", "r", "t", "u", "g", "u", "e", "s", "e">>>>
p_nb_NO == <<<<"n", "b", "-", "N", "O">>, <<"N", "o", "r", "w", "e", "g", "i", "a", "n">>>>
PairPool == {p_es, p_es_AR, p_et, p_pt, p_nb_NO}

\* the lists without repetition of at most n pairs of the pool
RECURSIVE PairLists(_)
PairLists(n) ==
    IF n = 0 THEN {<< >>}
    ELSE LET shorter == PairLists(n - 1)
         IN shorter \cup {k \in {Append(l, x) : l \in shorter, x \in PairPool} :
                              Cardinality(ToSet(k)) = Len(k)}
RemoteCatalogs == PairLists(MaxCatalog) \cup {DefaultLanguages}
StaticCatalogs == {DefaultLanguages, <<p_pt, p_es_AR, p_es>>, <<p_nb_NO, p_et>>}
LanguageQueries == {<< >>, <<"e", "s">>, <<"E", "S">>, <<"a", "n">>, <<"-", "a", "r">>, <<"n", "b", "-", "n", "o">>, <<"i">>}

AppTick ==
    /\ now + HourStep <= MaxHour
    /\ now' = now + HourStep
    /\ UNCHANGED <<cacheVars, branchVars, restVars>>

\* the first fetch is tried on every remote catalog, a later one on a few
FewCatalogs == {<< >>, <<p_es_AR, p_es>>}
CatalogsHere ==
    IF weblate_languages_cache.data = Nothing THEN RemoteCatalogs ELSE FewCatalogs

\* catalog requests as time passes, closed by one search
Searching == answered.op \in {"language_search", "weblate_language_search"}
LangNext ==
    \/ ~Searching /\ AppTick
    \/ ~Searching /\ ApiLanguageSearch(LanguageQueries)
    \/ ~Searching /\ ApiWeblateLanguages(CatalogsHere)
    \/ ~Searching /\ ApiWeblateLanguageSearch(LanguageQueries, CatalogsHere)

\* ---- api_weblate_languages under a threaded server: the requests of
\* several clients run side by side on the module-level cache.  A request
\* goes through the test of lines 230-232, then either the read of line 233
\* or the fetch of lines 237-245 and the two writes of lines 248 and 249.
\* The test is one step: data and last_updated only go from None to a value,
\* so its reads, taken one by one, see what one instant shows.
Clients == {"c1", "c2", "c3"}
NoReq == [pc |-> "idle", at |-> 0, languages |-> << >>, fetch_ok |-> FALSE,
          served |-> FALSE, returned |-> Nothing]

\* app.py:248
UpdateDataPartly(c, languages) ==
    [c EXCEPT !.data = Some(SubSeq(languages, 1, Len(languages) - 1))]
UpdateData(c, languages) == [c EXCEPT !.data = Some(languages)]

\* app.py:249
UpdateTime(c, t) == [c EXCEPT !.last_updated = Some(t)]

\* the request of client c is routed to api_weblate_languages
WlStart(c) ==
    /\ req[c].pc = "idle"
    /\ req' = [req EXCEPT ![c].pc = "test"]
    /\ UNCHANGED <<now, cacheVars, branchVars, appVars, link, peer, repo_issues, route>>

\* app.py:230-232
WlTest(c) ==
    /\ req[c].pc = "test"
    /\ req' = [req EXCEPT ![c].pc = IF WeblateCacheValid THEN "serve" ELSE "fetch",
                          ![c].at = now]
    /\ UNCHANGED <<now, cacheVars, branchVars, appVars, link, peer, repo_issues, route>>

\* app.py:233: the data of the cache as it is now is answered
WlServe(c) ==
    /\ req[c].pc = "serve"
    /\ req' = [req EXCEPT ![c].pc = "done", ![c].served = TRUE,
                          ![c].returned = weblate_languages_cache.data]
    /\ UNCHANGED <<now, cacheVars, branchVars, appVars, link, peer, repo_issues, route>>

\* app.py:235-245 and 252-261: the fetch and the list built from it in a
\* local, or the static catalog answered
WlFetch(c, catalogs) ==
    \E answer \in {[ok |-> FALSE, results |-> << >>]}
                  \cup {[ok |-> TRUE, results |-> k] : k \in catalogs} :
        /\ req[c].pc = "fetch"
        /\ req' = IF answer.ok
                  THEN [req EXCEPT ![c].pc = "write_data", ![c].fetch_ok = TRUE,
                                   ![c].languages = Catalog(answer.results)]
                  ELSE [req EXCEPT ![c].pc = "done",
                                   ![c].returned = Some(StaticFallback)]
        /\ UNCHANGED <<now, cacheVars, branchVars, appVars, link, peer, repo_issues, route>>

\* app.py:248
WlWriteData(c) ==
    /\ req[c].pc = "write_data"
    /\ weblate_languages_cache' = UpdateData(weblate_languages_cache, req[c].languages)
    /\ req' = [req EXCEPT ![c].pc = "write_time"]
    /\ UNCHANGED <<now, cacheVars, branchVars, LANGUAGES, answered, link, peer,
                   repo_issues, route>>

\* app.py:249-251
WlWriteTime(c) ==
    /\ req[c].pc = "write_time"
    /\ weblate_languages_cache' = UpdateTime(weblate_languages_cache, now)
    /\ req' = [req EXCEPT ![c].pc = "done", ![c].returned = Some(req[c].languages)]
    /\ UNCHANGED <<now, cacheVars, branchVars, LANGUAGES, answered, link, peer,
                   repo_issues, route>>

\* a day passes
DayTick ==
    /\ now < WeblateTtl
    /\ now' = now + WeblateTtl
    /\ UNCHANGED <<cacheVars, branchVars, restVars>>

RaceCatalogs == {<<p_es>>, <<p_et, p_pt>>}
RaceNext ==
    \/ DayTick
    \/ \E c \in Clients : WlStart(c)
    \/ \E c \in Clients : WlTest(c)
    \/ \E c \in Clients : WlServe(c)
    \/ \E c \in Clients : WlFetch(c, RaceCatalogs)
    \/ \E c \in Clients : WlWriteData(c)
    \/ \E c \in Clients : WlWriteTime(c)

(***************************************************************************)
(* GitHubIntegration.link_to_project and _set_project_fields.  Names, ids  *)
(* and values are strings; project_fields is a Dict[str, str].             *)
(***************************************************************************)
\* an attribute the issue object does not have, a dict without the key
Absent == "absent"
NoKey == "nokey"

\* `not node_id`
Falsy(node_id) == node_id \in {None, ""}

\* github_integration.py:52-60: the node id found on the issue object, or the
\* need of the REST call of lines 62-71
node_id_without_raw_data(issue) ==
    IF issue.node_id # Absent
    THEN [rest |-> FALSE, node_id |-> issue.node_id]
    ELSE IF issue._rawData \notin {Absent, NoKey}
    THEN [rest |-> FALSE, node_id |-> issue._rawData]
    ELSE [rest |-> TRUE, node_id |-> None]
node_id_of(issue) ==
    IF issue.node_id # Absent
    THEN [rest |-> FALSE, node_id |-> issue.node_id]
    ELSE IF issue._rawData \notin {Absent, NoKey}
    THEN [rest |-> FALSE, node_id |-> issue._rawData]
    ELSE IF issue.raw_data \notin {Absent, NoKey}
    THEN [rest |-> FALSE, node_id |-> issue.raw_data]
    ELSE [rest |-> TRUE, node_id |-> None]

\* github_integration.py:149-159: the dict built from the nodes in order, a
\* later node of the same name replacing an earlier one.  A node is
\* [kind, id, name, options]; options lists [name, id] records.
RECURSIVE Options(_)
Options(options) ==
    IF options = << >> THEN << >>
    ELSE LET opt == options[Len(options)]
         IN (opt.name :> opt.id) @@ Options(SubSeq(options, 1, Len(options) - 1))

RECURSIVE FieldMap(_)
FieldMap(nodes) ==
    IF nodes = << >> THEN << >>
    ELSE LET field == nodes[Len(nodes)]
             info == IF field.kind = "select"
                     THEN [id |-> field.id, has_options |-> TRUE,
                           options |-> Options(field.options)]
                     ELSE [id |-> field.id, has_options |-> FALSE, options |-> << >>]
         IN (field.name :> info) @@ FieldMap(SubSeq(nodes, 1, Len(nodes) - 1))

\* github_integration.py:149: field_map is a local of the call, {} at the
\* start of each and filled from the nodes of the answer this call got
field_map_of_peer(nodes) ==
    IF peer.field_map # << >> THEN peer.field_map ELSE FieldMap(nodes)
new_field_map(nodes) == FieldMap(nodes)

\* github_integration.py:184-187
alternatives_last_first ==
    [field_name \in {"Content Type", "Status"} |->
        IF field_name = "Content Type"
        THEN <<"Type", "content type", "Content type", "ContentType">>
        ELSE <<"State", "STATE", "status">>]
alternatives ==
    [field_name \in {"Content Type", "Status"} |->
        IF field_name = "Content Type"
        THEN <<"ContentType", "Content type", "content type", "Type">>
        ELSE <<"status", "STATE", "State">>]

\* github_integration.py:181-200: the name looked up in field_map, Nothing
\* when the field is skipped
actual_field_name(field_name, field_map) ==
    IF field_name \in DOMAIN field_map THEN Some(field_name)
    ELSE IF field_name \in DOMAIN alternatives
    THEN LET found == SelectSeq(alternatives[field_name],
                                LAMBDA alt : alt \in DOMAIN field_map)
         IN IF found = << >> THEN Nothing ELSE Some(found[1])
    ELSE Nothing

\* github_integration.py:205-215: the value of the mutation, Nothing when
\* the option is not found
value_without_option_check(field_info, field_value) ==
    IF field_info.has_options
    THEN Some([kind |-> "singleSelectOptionId",
               v |-> IF field_value \in DOMAIN field_info.options
                     THEN field_info.options[field_value] ELSE "None"])
    ELSE Some([kind |-> "text", v |-> field_value])
value(field_info, field_value) ==
    IF field_info.has_options
    THEN IF field_value \in DOMAIN field_info.options
         THEN Some([kind |-> "singleSelectOptionId",
                    v |-> field_info.options[field_value]])
         ELSE Nothing
    ELSE Some([kind |-> "text", v |-> field_value])

\* One link operation.  pc is the call about to be sent ("rest", "add",
\* "schema", "update", the latter for fields[i]) or how the operation ended
\* ("returned" for `return True`, "raised"); sent lists the external calls
\* in the order sent; answers lists what each of them got.
NoLink ==
    [pc |-> "idle", issue |-> [node_id |-> Absent, _rawData |-> Absent,
                               raw_data |-> Absent],
     fields |-> << >>, node_id |-> None, item_id |-> None, nodes |-> << >>,
     field_map |-> << >>, i |-> 0, sent |-> << >>, answers |-> << >>]

\* the link operation before it is started
LinkIdle == link = NoLink

\* nothing runs beside the one operation
NoRoute == [pc |-> "idle", title |-> "", status |-> 0, success |-> FALSE,
            issue_url |-> None, statuses |-> << >>]
MoreIdle ==
    /\ peer = NoLink
    /\ req = [c \in Clients |-> NoReq]
    /\ repo_issues = << >>
    /\ route = NoRoute

\* github_integration.py:73-74, then the mutation of lines 76-85
AfterNodeIdUnchecked(l, node_id) ==
    [l EXCEPT !.pc = "add", !.node_id = node_id]
AfterNodeId(l, node_id) ==
    IF Falsy(node_id) THEN [l EXCEPT !.pc = "raised", !.node_id = node_id]
    ELSE [l EXCEPT !.pc = "add", !.node_id = node_id]

\* a caller invokes link_to_project(issue, project_id, fields): lines 52-60
LinkToProject(inputs) ==
    \E input \in inputs :
        /\ link.pc = "idle"
        /\ LET l == [link EXCEPT !.issue = input[1], !.fields = input[2]]
               found == node_id_of(input[1])
           IN link' = IF found.rest THEN [l EXCEPT !.pc = "rest"]
                      ELSE AfterNodeId(l, found.node_id)
        /\ UNCHANGED <<now, cacheVars, branchVars, appVars, moreVars>>

\* github_integration.py:62-74: the REST call for the issue by number.  The
\* answer is "raise", a status other than 200, or 200 with the node_id of
\* the payload (None when it has none).
RestFetch(answers) ==
    \E answer \in answers :
        /\ link.pc = "rest"
        /\ LET l == [link EXCEPT !.sent = Append(@, [kind |-> "rest"]),
                                 !.answers = Append(@, answer)]
           IN link' = IF answer.kind = "raise" THEN [l EXCEPT !.pc = "raised"]
                      ELSE IF answer.kind = "ok" THEN AfterNodeId(l, answer.id)
                      ELSE AfterNodeId(l, None)
        /\ UNCHANGED <<now, cacheVars, branchVars, appVars, moreVars>>

\* github_integration.py:76-95: the add-item mutation.  The answer is
\* "raise", "status" (not 200), "errors" (200 with GraphQL errors) or "ok"
\* with the item id.
AddItem(answers) ==
    \E answer \in answers :
        /\ link.pc = "add"
        /\ LET l == [link EXCEPT !.sent = Append(@, [kind |-> "add",
                                                     contentId |-> link.node_id]),
                                 !.answers = Append(@, answer)]
           IN link' = IF answer.kind = "ok"
                      THEN [l EXCEPT !.pc = "schema", !.item_id = answer.id]
                      ELSE [l EXCEPT !.pc = "raised"]
        /\ UNCHANGED <<now, cacheVars, branchVars, appVars, moreVars>>

\* github_integration.py:135-159: the field-schema query and the parse of
\* its nodes; a node of a field type the query names no fragment for is an
\* empty dict, and field['name'] raises on it
SchemaQuery(answers) ==
    \E answer \in answers :
        /\ link.pc = "schema"
        /\ LET l == [link EXCEPT !.sent = Append(@, [kind |-> "schema"]),
                                 !.answers = Append(@, [kind |-> answer.kind])]
           IN link' = IF answer.kind = "ok"
                         /\ \A k \in 1..Len(answer.nodes) : answer.nodes[k].kind # "other"
                      THEN [l EXCEPT !.pc = "update", !.i = 1,
                                     !.nodes = answer.nodes,
                                     !.field_map = new_field_map(answer.nodes)]
                      ELSE [l EXCEPT !.pc = "raised"]
        /\ UNCHANGED <<now, cacheVars, branchVars, appVars, moreVars>>

\* github_integration.py:179-231, one round of the loop, for fields[i]: the
\* field is skipped, or its update mutation is sent and answered "raise",
\* "status", "errors" or "ok"
UpdateField(answers) ==
    /\ link.pc = "update"
    /\ link.i <= Len(link.fields)
    /\ LET field_name == link.fields[link.i][1]
           field_value == link.fields[link.i][2]
           actual == actual_field_name(field_name, link.field_map)
           val == IF actual = Nothing THEN Nothing
                  ELSE value(link.field_map[actual[1]], field_value)
       IN IF val = Nothing
          THEN link' = [link EXCEPT !.i = @ + 1]
          ELSE \E answer \in answers :
                  link' = [link EXCEPT
                             !.i = @ + 1,
                             !.pc = IF answer.kind = "raise" THEN "raised" ELSE @,
                             !.sent = Append(@, [kind |-> "update",
                                                 field_name |-> field_name,
                                                 fieldId |-> link.field_map[actual[1]].id,
                                                 value |-> val[1]]),
                             !.answers = Append(@, answer)]
    /\ UNCHANGED <<now, cacheVars, branchVars, appVars, moreVars>>

\* github_integration.py:98-100: _set_project_fields is through its loop
LinkReturn ==
    /\ link.pc = "update"
    /\ link.i > Len(link.fields)
    /\ link' = [link EXCEPT !.pc = "returned"]
    /\ UNCHANGED <<now, cacheVars, branchVars, appVars, moreVars>>

\* ---- the issues, requests, schemas and answers the operation is tried on
Issue(node_id, _rawData, raw_data) ==
    [node_id |-> node_id, _rawData |-> _rawData, raw_data |-> raw_data]
Issues ==
    {Issue("N1", Absent, Absent), Issue(None, "N2", Absent),
     Issue(Absent, "N2", "N3"), Issue(Absent, NoKey, "N3"),
     Issue(Absent, Absent, Absent), Issue(Absent, NoKey, NoKey),
     Issue(Absent, None, "N3")}

FieldPool == {<<"Content Type", "Course">>, <<"Status", "Todo">>,
              <<"Status", "Bogus">>, <<"Notes", "hello">>, <<"Missing", "x">>}

\* the dicts of at most n items of the pool, as lists in insertion order
RECURSIVE Requests(_)
Requests(n) ==
    IF n = 0 THEN {<< >>}
    ELSE LET shorter == Requests(n - 1)
         IN shorter \cup {r \in {Append(f, x) : f \in shorter, x \in FieldPool} :
                             \A j, k \in 1..Len(r) : r[j][1] = r[k][1] => j = k}

Select(name, id, options) ==
    [kind |-> "select", name |-> name, id |-> id, options |-> options]
Option(name, id) == [name |-> name, id |-> id]
NodePool ==
    <<Select("Content Type", "F_content_type", <<Option("Course", "O_course")>>),
      Select("Type", "F_type", <<Option("Course", "O_type_course")>>),
      Select("Content type", "F_content_type_2", <<Option("Course", "O_course_2")>>),
      Select("status", "F_status",
             <<Option("Todo", "O_todo"), Option("Done", "O_done")>>),
      Select("State", "F_state", <<Option("Todo", "O_state_todo")>>),
      [kind |-> "text", name |-> "Notes", id |-> "F_notes", options |-> << >>],
      [kind |-> "other", name |-> "", id |-> "", options |-> << >>]>>

\* the chosen nodes of the pool, in the order of the pool
RECURSIVE Nodes(_, _)
Nodes(I, k) ==
    IF k > Len(NodePool) THEN << >>
    ELSE (IF k \in I THEN <<NodePool[k]>> ELSE << >>) \o Nodes(I, k + 1)
Schemas ==
    {Nodes(I, 1) : I \in {J \in SUBSET (1..Len(NodePool)) : Cardinality(J) <= MaxNodes}}

Failures == {[kind |-> "raise"], [kind |-> "status"], [kind |-> "errors"]}
RestAnswers == {[kind |-> "raise"], [kind |-> "status"],
                [kind |-> "ok", id |-> "N9"], [kind |-> "ok", id |-> None]}
AddAnswers == Failures \cup {[kind |-> "ok", id |-> "ITEM"]}
SchemaAnswers == Failures \cup {[kind |-> "ok", nodes |-> n] : n \in Schemas}
UpdateAnswers == Failures \cup {[kind |-> "ok"]}

\* every request on the issue with a node_id attribute, a few on the others
FewRequests == {<< >>, <<<<"Status", "Todo">>>>}
LinkInputs ==
    {<<Issue("N1", Absent, Absent), f>> : f \in Requests(MaxFields)}
    \cup {<<issue, f>> : issue \in Issues, f \in FewRequests}

\* the scheduler gives the turn to the other link operation (each runs in
\* the thread of its request; the locals of one are not those of the other)
Switch ==
    /\ link' = peer
    /\ peer' = link
    /\ UNCHANGED <<now, cacheVars, branchVars, appVars, repo_issues, req, route>>

\* two operations on the project while its fields are edited: the schema
\* query is answered with the single-select field 'status' under its first
\* or its second id and option ids
StatusThen == Select("status", "F_status", <<Option("Todo", "O_todo")>>)
StatusNow == Select("status", "F_status_2", <<Option("Todo", "O_todo_2")>>)
NotesNode == [kind |-> "text", name |-> "Notes", id |-> "F_notes", options |-> << >>]
ChangingSchemas == {<<StatusThen, NotesNode>>, <<StatusNow>>}
TwoInputs ==
    {<<Issue("N1", Absent, Absent), f>> :
        f \in {<<<<"Status", "Todo">>>>, <<<<"Notes", "hello">>, <<"Status", "Todo">>>>}}

LinksNext ==
    \/ LinkToProject(TwoInputs)
    \/ AddItem({[kind |-> "ok", id |-> "ITEM"], [kind |-> "status"]})
    \/ SchemaQuery({[kind |-> "errors"]}
                   \cup {[kind |-> "ok", nodes |-> n] : n \in ChangingSchemas})
    \/ UpdateField({[kind |-> "ok"], [kind |-> "status"]})
    \/ LinkReturn
    \/ Switch

\* ---- app.py: a create route (create_course_issue and its five siblings
\* have the same try block), served in steps: create_issue, the steps of
\* link_to_project, the response
\* github_integration.py:19-29: repo.create_issue adds an issue
create_issue_once(issues, title) ==
    IF title \in ToSet(issues) THEN issues ELSE Append(issues, title)
create_issue(issues, title) == Append(issues, title)

\* app.py:355-395 (services/issue_creator.py:30-41): a request arrives and
\* github.create_issue is called; when it raises the route answers at once
CreateIssue(titles) ==
    \E title \in titles, created \in BOOLEAN :
        /\ route.pc \in {"idle", "answered"}
        /\ Len(route.statuses) < MaxRequests
        /\ link.pc = "idle"
        /\ IF created
           THEN /\ repo_issues' = create_issue(repo_issues, title)
                /\ route' = [route EXCEPT !.pc = "created", !.title = title,
                                          !.status = 0, !.success = FALSE,
                                          !.issue_url = None]
           ELSE /\ repo_issues' = repo_issues
                /\ route' = [route EXCEPT !.pc = "answered", !.title = title,
                                          !.status = 500, !.success = FALSE,
                                          !.issue_url = None,
                                          !.statuses = Append(@, 500)]
        /\ UNCHANGED <<now, cacheVars, branchVars, appVars, link, peer, req>>

\* app.py:407-415: link_to_project returned and the route answers success
\* with the URL of the issue, or it raised and `except Exception` answers
\* the error with status 500
Respond ==
    /\ route.pc = "created"
    /\ link.pc \in {"returned", "raised"}
    /\ route' = IF link.pc = "returned"
                THEN [route EXCEPT !.pc = "answered", !.status = 200,
                                   !.success = TRUE, !.issue_url = route.title,
                                   !.statuses = Append(@, 200)]
                ELSE [route EXCEPT !.pc = "answered", !.status = 500,
                                   !.statuses = Append(@, 500)]
    /\ link' = NoLink
    /\ UNCHANGED <<now, cacheVars, branchVars, appVars, peer, repo_issues, req>>

\* the issue objects create_issue returns and the fields of the route
CreatedInputs ==
    {<<issue, <<<<"Status", "Todo">>, <<"Content Type", "Course">>>>>> :
        issue \in {Issue("N1", Absent, Absent), Issue(Absent, Absent, Absent)}}
Titles == {"[PROOFREADING] btc101 - es", "[PROOFREADING] btc102 - es"}

CreateNext ==
    \/ CreateIssue(Titles)
    \/ route.pc = "created" /\ LinkToProject(CreatedInputs)
    \/ RestFetch({[kind |-> "status"], [kind |-> "ok", id |-> "N9"]})
    \/ AddItem({[kind |-> "errors"], [kind |-> "ok", id |-> "ITEM"]})
    \/ SchemaQuery({[kind |-> "status"],
                    [kind |-> "ok", nodes |-> <<StatusThen, NodePool[2]>>]})
    \/ UpdateField({[kind |-> "ok"], [kind |-> "raise"]})
    \/ LinkReturn
    \/ Respond

LinkNext ==
    \/ LinkToProject(LinkInputs)
    \/ RestFetch(RestAnswers)
    \/ AddItem(AddAnswers)
    \/ SchemaQuery(SchemaAnswers)
    \/ UpdateField(UpdateAnswers)
    \/ LinkReturn

Init ==
    /\ now = 0
    /\ CacheInit
    /\ BranchInit
    /\ AppIdle
    /\ LinkIdle
    /\ MoreIdle

SpecCache == Init /\ [][CacheNext]_vars
SpecLocal == Init /\ [][LocalNext]_vars
SpecBranch == Init /\ [][BranchNext]_vars
SpecExists == Init /\ [][ExistsNext]_vars
SpecRoutes == Init /\ [][RoutesNext]_vars

\* the language endpoints over every static catalog
LangInit ==
    /\ now = 0
    /\ CacheInit
    /\ BranchInit /\ local_repo_path = NoPath
    /\ LANGUAGES \in StaticCatalogs
    /\ weblate_languages_cache = [data |-> Nothing, last_updated |-> Nothing]
    /\ answered = NoLang
    /\ LinkIdle
    /\ MoreIdle

SpecLang == LangInit /\ [][LangNext]_vars

LinkInit == Init /\ local_repo_path = NoPath
SpecLink == LinkInit /\ [][LinkNext]_vars
SpecLinks == LinkInit /\ [][LinksNext]_vars
SpecCreate == LinkInit /\ [][CreateNext]_vars
SpecRace == LinkInit /\ [][RaceNext]_vars

\* fuzzy_search under either SequenceMatcher
FuzzyInit ==
    /\ now = 0
    /\ CacheInit
    /\ local_repo_path \in {NoPath, RepoPath}
    /\ local_branches_cache = Nothing
    /\ local_cache_time = Nothing
    /\ branches_cache = Nothing
    /\ cache_time = Nothing
    /\ repo = FALSE
    /\ fetched = Nothing
    /\ fetched_at = Nothing
    /\ matcher \in {"difflib", "levenshtein"}
    /\ ret = NoRet
    /\ AppIdle
    /\ LinkIdle
    /\ MoreIdle

SpecFuzzy == FuzzyInit /\ [][FuzzyNext]_vars
SpecSuggest == FuzzyInit /\ [][SuggestNext]_vars

(***************************************************************************)
(* Claims about CacheService, checked under SpecCache.  A call's outcome   *)
(* is read at pc = "release": the call is about to return `result`.        *)
(***************************************************************************)
Returning(t, op) == pc[t] = "release" /\ call[t].op = op

\* C1: after set(k, v, ttl), a get(k) with no delete/clear of k in between
\* returns v while the clock has not passed the entry's expiry and None once
\* now > expires_at; a value is never returned from an expired entry.
C1_GetAfterSet ==
    \A t \in Threads :
        Returning(t, "get") =>
            /\ (call[t].key \in DOMAIN lastSet /\ lastSet[call[t].key].live) =>
                  IF at[t] <= lastSet[call[t].key].entry.expires_at
                  THEN result[t] = lastSet[call[t].key].entry.value
                  ELSE result[t] = None
            /\ result[t] # None => at[t] <= cache_entry[t].expires_at

\* a get(k) finds the latest set(k, ...) expired, returns None and prunes it
C1_Witness ==
    \E t \in Threads :
        /\ Returning(t, "get")
        /\ call[t].key \in DOMAIN lastSet
        /\ lastSet[call[t].key].live
        /\ at[t] > lastSet[call[t].key].entry.expires_at
        /\ cache_entry[t] = lastSet[call[t].key].entry
        /\ result[t] = None
        /\ call[t].key \notin DOMAIN cache

InCall(t) == pc[t] \notin {"idle", "KeyError"}

\* C2: under any interleaving the calls are atomic: at most one call is
\* inside its locked block, every value a get returns is the value of one
\* earlier set on that key judged against that same set's expiry, and no
\* call fails with a KeyError because another call removed the key.
C2_Atomic ==
    /\ \A t1, t2 \in Threads : InCall(t1) /\ InCall(t2) => t1 = t2
    /\ \A t \in Threads : pc[t] # "KeyError"
    /\ \A t \in Threads :
          (Returning(t, "get") /\ result[t] # None) =>
              \E s \in sets :
                  /\ s.key = call[t].key
                  /\ s.entry = cache_entry[t]
                  /\ s.entry.value = result[t]
                  /\ at[t] <= s.entry.expires_at

\* a get returns a value for a key that two different sets have written
C2_Witness ==
    \E t \in Threads :
        /\ Returning(t, "get")
        /\ result[t] # None
        /\ \E s1, s2 \in sets :
              s1 # s2 /\ s1.key = call[t].key /\ s2.key = call[t].key
        /\ calls = MaxCalls

(***************************************************************************)
(* Claims about BranchSelector.get_branches, checked under SpecBranch.     *)
(* In a step that is a call the clock stands still (now' = now) and ret'   *)
(* describes the call; the unprimed fields are the selector before it.     *)
(***************************************************************************)
CallStep(op) == now' = now /\ ret'.op = op

\* C3: when a local path is configured and the local listing yields at
\* least one name, get_branches returns exactly the local list, calls no
\* remote API and leaves the remote cache alone, whatever force_refresh is.
C3_LocalFirst ==
    [][(CallStep("get_branches") /\ local_repo_path # NoPath /\ ret'.local # << >>) =>
          /\ ret'.result = ret'.local
          /\ ~ret'.api
          /\ UNCHANGED <<branches_cache, cache_time, repo>>]_vars

\* a forced call answered with a local list of several names while a remote
\* list is cached
C3_Witness ==
    /\ ret.op = "get_branches"
    /\ ret.force
    /\ Len(ret.local) >= 2
    /\ ret.result = ret.local
    /\ ~ret.api
    /\ branches_cache # Nothing

\* C4: with no local branches, after a successful remote fetch at time t:
\* a call without force_refresh before t + 5 minutes returns the cached list
\* without a remote call; a call with force_refresh, or at or after t + 5
\* minutes, calls the remote API and on success returns and caches exactly
\* the fresh list.
C4_RemoteCache ==
    [][(CallStep("get_branches") /\ ret'.local = << >> /\ fetched # Nothing) =>
          IF ~ret'.force /\ now < fetched_at[1] + CacheDuration
          THEN ret'.result = fetched[1] /\ ~ret'.api
          ELSE /\ ret'.api
               /\ ret'.api_ok =>
                     /\ ret'.result = ret'.names
                     /\ branches_cache' = Some(ret'.names)
                     /\ cache_time' = Some(now)]_vars

\* a call in the last minute of the window is answered from the cache
C4_Witness ==
    /\ ret.op = "get_branches"
    /\ ~ret.force
    /\ ret.local = << >>
    /\ ~ret.api
    /\ fetched # Nothing
    /\ ret.result = fetched[1]
    /\ now = fetched_at[1] + CacheDuration - 1

\* C5: when the remote fetch fails, get_branches returns the last
\* successfully fetched remote list if one exists, and otherwise exactly
\* ["dev", "main"].
C5_LastFetchedOrFallback ==
    [][(CallStep("get_branches") /\ ret'.api /\ ~ret'.api_ok) =>
          ret'.result = IF fetched # Nothing THEN fetched[1] ELSE <<s_dev, s_main>>]_vars

(***************************************************************************)
(* Claims about BranchSelector.get_local_branches, checked under SpecLocal *)
(***************************************************************************)
Elems(l) == {l[i] : i \in 1..Len(l)}

\* the text after the first "/" of s
RECURSIVE AfterSlash(_)
AfterSlash(s) ==
    IF s = << >> THEN << >>
    ELSE IF Head(s) = "/" THEN Tail(s) ELSE AfterSlash(Tail(s))

\* an entry for a remote's symbolic HEAD pointer: "HEAD" or "HEAD -> ..."
IsHeadEntry(b) == b = s_HEAD \/ StartsWith(b, s_head_arrow)

\* the bare names of the remote-tracking lines remotes/<remote>/<name> of a
\* listing, the HEAD pointer lines left out
RemoteTracked(stdout) ==
    LET lines == Split(Strip(stdout), "\n")
        tracking == {Strip(lines[i]) : i \in {j \in 1..Len(lines) :
                                              StartsWith(Strip(lines[j]), s_remotes)}}
    IN {b \in {AfterSlash(AfterSlash(l)) : l \in tracking} : ~IsHeadEntry(b)}

\* C6: for every listing, get_local_branches returns a list sorted
\* ascending, without duplicates, without a current-branch marker, in which
\* every remote-tracking line remotes/<remote>/<name>, for any remote,
\* appears as the bare <name>.
C6_Normalised ==
    ret.op = "get_local_branches" =>
        /\ \A i \in 1..(Len(ret.result) - 1) : StrLess(ret.result[i], ret.result[i + 1])
        /\ \A b \in Elems(ret.result) : ~StartsWith(b, <<"*">>)
        /\ \A b \in Elems(ret.result) : ~StartsWith(b, s_remotes)
        /\ ret.ran => RemoteTracked(ret.stdout) \subseteq Elems(ret.result)

\* C7: the returned list never holds an entry for a remote's symbolic HEAD
\* pointer, whether the listing prints it bare or as "HEAD -> origin/<name>".
C7_NoHead ==
    ret.op = "get_local_branches" => \A b \in Elems(ret.result) : ~IsHeadEntry(b)

\* ---- fuzzy_search (SpecFuzzy) ----
Searched == ret.op = "fuzzy_search"

\* C8: for every query, every context and every limit >= 0 the list returned
\* by fuzzy_search has at most limit elements.
C8_AtMostLimit ==
    Searched => Len(ret.result) <= ret.limit

\* the 1-based position of b in l, b being an element of l
PositionIn(b, l) == CHOOSE i \in 1..Len(l) : l[i] = b

\* the preferred branches
Preferred == {s_dev, s_main, s_master}

\* b carries one of the per-language patterns of the context of the call
LanguageBranch(b) ==
    /\ ret.context # Nothing
    /\ \E p \in Elems(<<ret.context[1] \o s_initial_upload,
                         ret.context[1] \o s_proofreading_suffix,
                         ret.context[1] \o s_translation_suffix,
                         s_proofreading_prefix \o ret.context[1],
                         s_translation_prefix \o ret.context[1]>>) :
           Contains(Lower(b), p)

\* the branches the empty-query search calls the other ones: neither
\* preferred nor placed for the language of the context
OtherBranch(b) == b \notin Preferred /\ ~LanguageBranch(b)

C10_ExactFirst ==
    Searched /\ ret.query \in Elems(ret.branches) /\ ret.limit >= 1 =>
        LET whole == <<ret.query>>
                       \o SelectSeq(ret.branches, LAMBDA b : b # ret.query)
        IN ret.result = SubSeq(whole, 1, Min(ret.limit, Len(whole)))

\* an exact match that is last in the resolved list, with two other branches
\* of which the limit keeps one
C10_Witness ==
    /\ Searched /\ ret.query = s_dev /\ ret.limit = 2
    /\ ret.branches = <<s_main, s_fix, s_dev>>
    /\ ret.result = <<s_dev, s_main>>

\* the tier of branch b for the query of the call: 1 a case-insensitive
\* prefix match, 2 a case-insensitive substring match that is no prefix
\* match, 3 an approximate match scored above 40, 0 none of these
TierOf(b) ==
    IF StartsWith(Lower(b), Lower(ret.query)) THEN 1
    ELSE IF Contains(Lower(b), Lower(ret.query)) THEN 2
    ELSE IF token_sort_ratio(ret.query, b) > 40 THEN 3
    ELSE 0

\* C11: for a non-empty query with no exact match the result lists all the
\* prefix matches first, then the substring matches that are no prefix
\* matches, then only approximate matches scored above 40 (the whole within
\* limit); no name appears twice and every name is of one of the three tiers.
C11_Tiers ==
    Searched /\ ret.query # << >> /\ ret.query \notin Elems(ret.branches) =>
        LET n == Len(ret.result)
            exact == SelectSeq(ret.branches, LAMBDA b : TierOf(b) = 1)
                       \o SelectSeq(ret.branches, LAMBDA b : TierOf(b) = 2)
        IN /\ Elems(ret.result) \subseteq Elems(ret.branches)
           /\ \A i, j \in 1..n : i # j => ret.result[i] # ret.result[j]
           /\ \A i \in 1..n : TierOf(ret.result[i]) \in {1, 2, 3}
           /\ \A i, j \in 1..n : i < j => TierOf(ret.result[i]) <= TierOf(ret.result[j])
           /\ SelectSeq(ret.result, LAMBDA b : TierOf(b) \in {1, 2})
                 = SubSeq(exact, 1, Min(ret.limit, Len(exact)))

\* a search whose prefix match stands behind a substring match in the
\* resolved list, or whose list holds a name scored exactly 40
C11_Witness ==
    /\ Searched
    /\ \/ /\ ret.query = <<"e">>
          /\ ret.branches = <<s_dev, s_es_translation, s_main>>
          /\ ret.result = <<s_es_translation, s_dev>>
       \/ /\ ret.query = <<"m", "i", "a", "n">>
          /\ ret.branches = <<s_master, s_main, s_dev>>
          /\ ret.limit = 3
          /\ ret.result = <<s_main>>

(***************************************************************************)
(* Claims about BranchSelector.branch_exists, checked under SpecExists     *)
(***************************************************************************)
\* C12: in every resolver state branch_exists(name) is true exactly when
\* name is in the list get_branches() returns in that state, the cached and
\* the static fallback lists included, and it reads and updates the caches
\* as that get_branches() call does.
C12_BranchExists ==
    [][CallStep("branch_exists") =>
          \E env \in Envs(FALSE, FewStdouts, RemoteLists) :
              \E g \in {get_branches(FALSE, env)} :
                 /\ ret'.exists = (ret'.branch_name \in Elems(g.result))
                 /\ ret'.api = g.api /\ ret'.ran = g.ran
                 /\ local_branches_cache' = g.local_branches_cache
                 /\ local_cache_time' = g.local_cache_time
                 /\ branches_cache' = g.branches_cache
                 /\ cache_time' = g.cache_time
                 /\ repo' = g.repo]_vars

\* a name found in the static fallback list, and a name found in a cached
\* list that does not hold it first
C12_Witness ==
    /\ ret.op = "branch_exists" /\ ret.exists
    /\ \/ ret.api /\ ~ret.api_ok /\ fetched = Nothing /\ ret.branch_name = s_dev
       \/ /\ ~ret.api /\ ret.local = << >> /\ branches_cache # Nothing
          /\ ret.branch_name = s_dev /\ branches_cache[1] = <<s_main, s_dev>>

(***************************************************************************)
(* Claims about the language endpoints of app.py, checked under SpecLang   *)
(***************************************************************************)
\* the entry's code, lowercased, is the q of the request
ExactCode(l) == Lower(l.code) = answered.q

\* C13: for every catalog and every non-empty query q, if the catalog holds
\* an entry whose lowercased code equals q, the search returns that entry
\* first, ahead of every entry whose code only starts with or contains q.
C13_ExactCodeFirst ==
    Searching /\ answered.q # << >>
              /\ (\E i \in 1..Len(answered.catalog) : ExactCode(answered.catalog[i])) =>
        LET first == CHOOSE i \in 1..Len(answered.catalog) :
                        /\ ExactCode(answered.catalog[i])
                        /\ \A k \in 1..(i - 1) : ~ExactCode(answered.catalog[k])
        IN /\ answered.languages # << >>
           /\ answered.languages[1] = answered.catalog[first]
           /\ \A i, j \in 1..Len(answered.languages) :
                  i < j /\ ExactCode(answered.languages[j]) => ExactCode(answered.languages[i])

\* the query es over a catalog that lists es last, behind es-AR
C13_Witness ==
    /\ answered.op = "language_search"
    /\ answered.q = <<"e", "s">>
    /\ answered.catalog = Catalog(<<p_pt, p_es_AR, p_es>>)
    /\ answered.languages = Catalog(<<p_es, p_es_AR, p_pt>>)

\* the score of entry l for the lowercased q of the request, by the rule
\* 100 code equal, 90 code prefix, 80 name prefix, 70 in the name, else 60
RuleScore(l) ==
    LET q == Lower(answered.q)
    IN IF Lower(l.code) = q THEN 100
       ELSE IF StartsWith(Lower(l.code), q) THEN 90
       ELSE IF StartsWith(Lower(l.name), q) THEN 80
       ELSE IF Contains(Lower(l.name), q) THEN 70
       ELSE 60

\* C14: for every catalog and non-empty query q the search result is the
\* reference: exactly the entries whose searchText contains lowercase(q),
\* scored by the rule, by score descending with equal scores in catalog
\* order, the first 10; the static and the remote-catalog search endpoints
\* give the same result on the same catalog.
C14_Reference ==
    Searching /\ answered.q # << >> =>
        \E scores \in {[i \in 1..Len(answered.catalog) |->
                          IF Contains(answered.catalog[i].searchText, Lower(answered.q))
                          THEN RuleScore(answered.catalog[i]) ELSE 0]} :
            LET kept == {i \in 1..Len(scores) : scores[i] > 0}
                ahead(i) == {j \in kept : \/ scores[j] > scores[i]
                                          \/ scores[j] = scores[i] /\ j < i}
            IN /\ Len(answered.languages) = Min(10, Cardinality(kept))
               /\ \A i \in kept : Cardinality(ahead(i)) < 10 =>
                      answered.languages[Cardinality(ahead(i)) + 1] = answered.catalog[i]

\* a remote-catalog search with more than 10 entries of one score
C14_Witness ==
    /\ answered.op = "weblate_language_search"
    /\ answered.q = <<"a", "n">>
    /\ answered.catalog = Catalog(DefaultLanguages)
    /\ Len(answered.languages) = 10
    /\ answered.languages[1].code = <<"d", "e">>
    /\ answered.languages[10].code = <<"s", "r", "-", "L", "a", "t", "n">>

\* C15: when the fetch of the remote catalog fails, the catalog request
\* still succeeds and returns the static catalog built from
\* Config.LANGUAGES, each entry with code, name, display and searchText.
C15_StaticFallback ==
    answered.op = "weblate_languages" /\ answered.fetch /\ ~answered.fetch_ok =>
        /\ answered.status = 200
        /\ Len(answered.languages) = Len(LANGUAGES)
        /\ \A i \in 1..Len(LANGUAGES) :
              LET code == LANGUAGES[i][1]
                  name == LANGUAGES[i][2]
              IN answered.languages[i] =
                     [code |-> code, name |-> name,
                      display |-> name \o <<" ", "(">> \o code \o <<")">>,
                      searchText |-> Lower(name) \o <<" ">> \o Lower(code)]

\* a failed fetch while an expired remote catalog is still held
C15_Witness ==
    /\ answered.op = "weblate_languages" /\ answered.fetch /\ ~answered.fetch_ok
    /\ weblate_languages_cache.data # Nothing
    /\ answered.languages = Catalog(LANGUAGES)
    /\ answered.languages # weblate_languages_cache.data[1]


\* ---- link_to_project
\* the fields of the request the loop of _set_project_fields is through
Processed == 1..(link.i - 1)
\* the names of the discovered schema, the node of a name
SchemaNames == {link.nodes[k].name : k \in 1..Len(link.nodes)}
NodeOf(name) ==
    link.nodes[CHOOSE k \in 1..Len(link.nodes) :
                  /\ link.nodes[k].name = name
                  /\ \A j \in (k + 1)..Len(link.nodes) : link.nodes[j].name # name]
\* the update calls sent for a requested name
UpdatesOf(name) ==
    {k \in 1..Len(link.sent) :
        link.sent[k].kind = "update" /\ link.sent[k].field_name = name}
\* the alternative names of a requested name, in table order
TableOf(name) ==
    CASE name = "Content Type" -> <<"ContentType", "Content type", "content type", "Type">>
      [] name = "Status" -> <<"status", "STATE", "State">>
      [] OTHER -> << >>
AlternativesPresent(name) ==
    SelectSeq(TableOf(name), LAMBDA alt : alt \in SchemaNames)
\* the schema name a requested name stands for, if any
Resolves(name) == name \in SchemaNames \/ AlternativesPresent(name) # << >>
ResolvedName(name) ==
    IF name \in SchemaNames THEN name ELSE AlternativesPresent(name)[1]
\* the value is one the field takes
Accepted(node, v) ==
    node.kind = "text"
    \/ \E o \in 1..Len(node.options) : node.options[o].name = v

\* C16: a requested name that is absent from the discovered schema while an
\* alternative of its table is present is updated against the field id of
\* the first such alternative in table order; a requested name that is in
\* the schema is updated against its own field id.
C16_FirstAlternative ==
    /\ \A k \in 1..Len(link.sent) :
          link.sent[k].kind = "update" =>
             LET name == link.sent[k].field_name
             IN /\ Resolves(name)
                /\ link.sent[k].fieldId = NodeOf(ResolvedName(name)).id
    /\ \A k \in Processed :
          LET name == link.fields[k][1]
          IN (/\ name \notin SchemaNames
              /\ AlternativesPresent(name) # << >>
              /\ Accepted(NodeOf(AlternativesPresent(name)[1]), link.fields[k][2]))
             => \E u \in UpdatesOf(name) :
                   link.sent[u].fieldId = NodeOf(AlternativesPresent(name)[1]).id

\* 'Content Type' requested against a schema with 'Type' and 'Content type'
C16_Witness ==
    /\ link.pc = "returned"
    /\ link.fields = <<<<"Content Type", "Course">>>>
    /\ SchemaNames = {"Type", "Content type"}
    /\ \E k \in 1..Len(link.sent) :
          link.sent[k].kind = "update" /\ link.sent[k].fieldId = "F_content_type_2"

C18_UpdateFailureIsSoft ==
    (\E k \in 1..Len(link.sent) :
        link.sent[k].kind = "update" /\ link.answers[k].kind # "ok")
    => /\ link.pc # "raised"
       /\ link.pc \in {"returned", "raised"} => link.i > Len(link.fields)

\* the rank of a call in the order of link_to_project
PhaseOf(kind) ==
    CASE kind = "rest" -> 1 [] kind = "add" -> 2 [] kind = "schema" -> 3
      [] kind = "update" -> 4

\* C19: the calls are sent in the order content-identifier resolution,
\* add-item mutation, schema query, updates, each only after the one before
\* it succeeded; without a content identifier, or when the add-item mutation
\* or the schema query fails, link_to_project raises and no later call is
\* sent.
C19_CallOrder ==
    /\ \A j, k \in 1..Len(link.sent) :
          j < k => /\ PhaseOf(link.sent[j].kind) <= PhaseOf(link.sent[k].kind)
                   /\ PhaseOf(link.sent[j].kind) = PhaseOf(link.sent[k].kind)
                         => link.sent[k].kind = "update"
    /\ \A k \in 1..Len(link.sent) :
          /\ link.sent[k].kind = "add"
                => /\ link.sent[k].contentId \notin {None, ""}
                   /\ k > 1 => /\ link.answers[k - 1].kind = "ok"
                               /\ link.answers[k - 1].id = link.sent[k].contentId
          /\ link.sent[k].kind = "schema"
                => k > 1 /\ link.sent[k - 1].kind = "add"
                         /\ link.answers[k - 1].kind = "ok"
          /\ link.sent[k].kind = "update"
                => \E j \in 1..(k - 1) : /\ link.sent[j].kind = "schema"
                                         /\ link.answers[j].kind = "ok"
          /\ (/\ link.sent[k].kind \in {"rest", "add", "schema"}
              /\ \/ link.answers[k].kind # "ok"
                 \/ link.sent[k].kind = "rest" /\ link.answers[k].id \in {None, ""})
                => link.pc = "raised" /\ k = Len(link.sent)
    /\ (link.pc \notin {"idle", "rest"} /\ link.node_id \in {None, ""})
          => /\ link.pc = "raised"
             /\ \A k \in 1..Len(link.sent) : link.sent[k].kind = "rest"

\* the REST call found the identifier, the add-item mutation failed
C19_Witness ==
    /\ link.pc = "raised"
    /\ Len(link.sent) = 2
    /\ link.sent[2] = [kind |-> "add", contentId |-> "N9"]
    /\ link.answers[2].kind = "errors"

\* the REST calls sent
RestCalls == {k \in 1..Len(link.sent) : link.sent[k].kind = "rest"}

CallsOfKind(l, kind) == {k \in 1..Len(l.sent) : l.sent[k].kind = kind}
\* the nodes of a name in the answer an operation got to its schema query
OwnNodes(l, names) == {k \in 1..Len(l.nodes) : l.nodes[k].name \in names}
\* an operation's updates carry ids of the answer to its own schema query
OwnSchemaOnly(l) ==
    /\ l.pc = "schema" => l.field_map = << >> /\ CallsOfKind(l, "schema") = {}
    /\ l.pc \in {"update", "returned"} =>
          /\ Cardinality(CallsOfKind(l, "schema")) = 1
          /\ \A k \in CallsOfKind(l, "schema") : l.answers[k].kind = "ok"
    /\ \A u \in CallsOfKind(l, "update") :
          /\ \E q \in CallsOfKind(l, "schema") : q < u
          /\ \E k \in OwnNodes(l, {IF l.sent[u].field_name = "Status" THEN "status"
                                   ELSE l.sent[u].field_name}) :
                /\ l.sent[u].fieldId = l.nodes[k].id
                /\ l.sent[u].value.kind = "singleSelectOptionId"
                      => \E o \in 1..Len(l.nodes[k].options) :
                            l.sent[u].value.v = l.nodes[k].options[o].id

\* C21: every link operation that reaches the field phase sends one schema
\* query of its own and every update it sends carries a field id, and for a
\* single-select field an option id, of the answer to that query, however
\* the steps of two operations interleave or follow one another.
C21_OwnSchema == OwnSchemaOnly(link) /\ OwnSchemaOnly(peer)

\* two operations that got the field under different ids
C21_Witness ==
    /\ link.pc = "returned" /\ peer.pc = "returned"
    /\ \E u \in CallsOfKind(link, "update") :
          /\ link.sent[u].fieldId = "F_status_2"
          /\ link.sent[u].value = [kind |-> "singleSelectOptionId", v |-> "O_todo_2"]
    /\ \E u \in CallsOfKind(peer, "update") :
          /\ peer.sent[u].fieldId = "F_status"
          /\ peer.sent[u].value = [kind |-> "singleSelectOptionId", v |-> "O_todo"]


\* ---- the per-language patterns in any casing, checked under SpecSuggest
\* the lowercased name of b holds the lowercased form of a pattern of the
\* language of the call
CasedLanguageBranch(b) ==
    /\ ret.context # Nothing
    /\ \E p \in Elems(<<ret.context[1] \o s_initial_upload,
                         ret.context[1] \o s_proofreading_suffix,
                         ret.context[1] \o s_translation_suffix,
                         s_proofreading_prefix \o ret.context[1],
                         s_translation_prefix \o ret.context[1]>>) :
           Contains(Lower(b), Lower(p))

\* C22: for an empty query with a language in the context, in any casing of
\* the language and of the branch names, no branch that is neither preferred
\* nor pattern-matching is placed before a pattern-matching one, and none is
\* in the result while a pattern-matching branch of the resolved list is cut
\* off by limit.
C22_PatternAnyCasing ==
    Searched /\ ret.query = << >> /\ ret.context # Nothing =>
        /\ \A i, j \in 1..Len(ret.result) :
              (i < j /\ CasedLanguageBranch(ret.result[j]))
                 => \/ ret.result[i] \in Preferred
                    \/ CasedLanguageBranch(ret.result[i])
        /\ \A b \in Elems(ret.branches) \ Elems(ret.result) :
              CasedLanguageBranch(b)
                 => \A i \in 1..Len(ret.result) :
                       \/ ret.result[i] \in Preferred
                       \/ CasedLanguageBranch(ret.result[i])


\* ---- the local snapshot without a branch name, checked under SpecBranch
\* C23: when the local snapshot yields no branch name (no path, a missing
\* path, a failed listing command, or a command that prints no branch line),
\* get_branches goes on to the remote path, answering from the remote API,
\* the cached remote list or the static fallback, and the list it returns is
\* never the list of one empty name.
C23_NoLocalNameGoesRemote ==
    [][(CallStep("get_branches") /\ \A b \in Elems(ret'.local) : b = << >>) =>
          /\ \/ ret'.api
             \/ branches_cache # Nothing /\ ret'.result = branches_cache[1]
          /\ ret'.result # << << >> >>]_vars


\* ---- the remote catalog over a day, checked under SpecLang
\* a request for the remote catalog is served in this step
CatalogStep ==
    /\ now' = now
    /\ answered'.op \in {"weblate_languages", "weblate_language_search"}

\* C24: after a successful fetch of the remote catalog at time t, a catalog
\* request before t + 24 hours is answered with the cached list, without a
\* remote call and without a change of the cache, and a request at or after
\* t + 24 hours makes a remote call.
C24_DayCache ==
    [][(CatalogStep /\ weblate_languages_cache.last_updated # Nothing) =>
          IF now < weblate_languages_cache.last_updated[1] + 24
          THEN /\ ~answered'.fetch
               /\ answered'.catalog = weblate_languages_cache.data[1]
               /\ UNCHANGED weblate_languages_cache
          ELSE answered'.fetch]_vars

\* a request hours after the fetch, inside the window, answered from the
\* cache
C24_Witness ==
    /\ answered.op = "weblate_languages"
    /\ ~answered.fetch
    /\ weblate_languages_cache.last_updated # Nothing
    /\ now > weblate_languages_cache.last_updated[1]
    /\ now < weblate_languages_cache.last_updated[1] + 24
    /\ answered.languages = weblate_languages_cache.data[1]

\* C25: when the fetch of the remote catalog fails, the catalog fetched
\* earlier is answered if one is still held, whatever its age, and the
\* static catalog only when none was ever fetched.
C25_CacheThenStatic ==
    [][(CatalogStep /\ answered'.op = "weblate_languages"
        /\ answered'.fetch /\ ~answered'.fetch_ok) =>
          answered'.languages =
              IF weblate_languages_cache.data # Nothing
              THEN weblate_languages_cache.data[1]
              ELSE Catalog(LANGUAGES)]_vars


\* ---- the branch endpoints over successive requests, checked under
\* SpecRoutes
\* a branch request is answered in this step
BranchRequestStep ==
    /\ now' = now
    /\ ret'.op \in {"api_branch_search", "api_validate_branch"}

\* C26: a branch-search or branch-validate request without a usable local
\* snapshot that arrives less than 5 minutes after a successful remote fetch
\* made for an earlier request is answered from that list, without a call to
\* the remote API.
C26_OncePerWindow ==
    [][(/\ BranchRequestStep
        /\ ret'.local = << >>
        /\ fetched # Nothing
        /\ now < fetched_at[1] + 5) => ~ret'.api]_vars


\* ---- the sources of the content identifier, checked under SpecLink
\* C27: when the node_id attribute of the issue exists and holds no
\* identifier (None or empty) while the raw payload holds one,
\* link_to_project takes the identifier of the payload and goes on to attach
\* the issue.
C27_FallsThrough ==
    (/\ link.pc # "idle"
     /\ link.issue.node_id \in {"None", ""}
     /\ link.issue._rawData \notin {"absent", "nokey", "None", ""})
    => /\ link.node_id = link.issue._rawData
       /\ link.pc = "raised" => link.sent # << >>


\* ---- a create route, checked under SpecCreate
\* C28: when create_issue succeeded and link_to_project raised, the create
\* route answers status 500 without success flag and without issue URL, and
\* the created issue stays in the repository; a request that repeats a title
\* adds a further issue of that title.
C28_NoRollback ==
    [][/\ (route.pc = "created" /\ route'.pc = "answered" /\ link.pc = "raised")
          => /\ route'.status = 500
             /\ ~route'.success
             /\ route'.issue_url = "None"
             /\ repo_issues' = repo_issues
             /\ repo_issues[Len(repo_issues)] = route.title
       /\ (route.pc # "created" /\ route'.pc = "created")
          => /\ Len(repo_issues') = Len(repo_issues) + 1
             /\ repo_issues'[Len(repo_issues')] = route'.title
             /\ SubSeq(repo_issues', 1, Len(repo_issues)) = repo_issues]_vars

\* the same request twice, both answered 500, two issues of the title left
C28_Witness ==
    /\ route.pc = "answered"
    /\ route.statuses = <<500, 500>>
    /\ Len(repo_issues) = 2
    /\ repo_issues[1] = repo_issues[2]


\* ---- catalog requests side by side, checked under SpecRace
\* the complete lists the successful fetches have produced so far
FetchedLists == {req[c].languages : c \in {k \in Clients : req[k].fetch_ok}}

\* C29: however the requests for the remote catalog interleave, the data of
\* the cache, once last_updated is set, is the complete list of one
\* successful fetch; a request answers a list, never None and never a part
\* of a list; and a request answered from the cache found data and
\* last_updated set and less than 24 hours old when it tested them.
C29_WholeCatalog ==
    /\ weblate_languages_cache.last_updated # Nothing
          => /\ weblate_languages_cache.data # Nothing
             /\ weblate_languages_cache.data[1] \in FetchedLists
    /\ weblate_languages_cache.data # Nothing
          => weblate_languages_cache.data[1] \in FetchedLists
    /\ \A c \in Clients :
          /\ req[c].pc = "done"
                => /\ req[c].returned # Nothing
                   /\ req[c].returned[1] \in FetchedLists \cup {Catalog(LANGUAGES)}
          /\ req[c].served
                => /\ req[c].returned[1] \in FetchedLists
                   /\ weblate_languages_cache.last_updated # Nothing
                   /\ req[c].at - weblate_languages_cache.last_updated[1] < 24
          /\ req[c].pc = "serve"
                => /\ weblate_languages_cache.data # Nothing
                   /\ weblate_languages_cache.last_updated # Nothing

\* two fetches raced, the data of one stands beside the time of the other,
\* and a third request was answered from the cache
C29_Witness ==
    /\ req["c1"].pc = "done" /\ req["c1"].fetch_ok
    /\ req["c2"].pc = "done" /\ req["c2"].fetch_ok
    /\ req["c1"].languages # req["c2"].languages
    /\ req["c3"].served
    /\ req["c3"].returned = Some(req["c1"].languages)
    /\ weblate_languages_cache.data = Some(req["c2"].languages)


\* ---- a failed remote fetch, checked under SpecBranch
\* C30: a get_branches call whose remote fetch fails leaves the cached
\* remote list and its timestamp as they were, so that the static fallback
\* is never cached, and returns the list cached before, whatever its age;
\* and every call without local branches whose cache window has expired (or
\* that finds no cache) calls the remote API.
C30_FailureLeavesCache ==
    [][/\ (CallStep("get_branches") /\ ret'.api /\ ~ret'.api_ok)
          => /\ UNCHANGED <<branches_cache, cache_time>>
             /\ branches_cache # Nothing => ret'.result = branches_cache[1]
       /\ (/\ CallStep("get_branches")
           /\ ret'.local = << >>
           /\ \/ cache_time = Nothing
              \/ now >= cache_time[1] + 5)
          => ret'.api]_vars

====
